---------------------------- MODULE Spec2Model ----------------------------
(***************************************************************************)
(* Model of the text parsing core of creeper (package internal/parser):    *)
(* the TXT line classifier (TxtFormat), the state-machine parser           *)
(* (StatefulTxtParser.ParseWithState), the legacy routine                  *)
(* (TxtFileStrategy.parseContentOld + convertToStandardChapters) as it is  *)
(* driven by TxtDirectoryStrategy.Parse, and Parser.parseNovelFromDir.     *)
(*                                                                         *)
(* Text representation.  A character is a short ASCII token; a line is a   *)
(* sequence of characters; a text (a Go string that may hold newlines) is  *)
(* the non-empty sequence of lines strings.Split(text, "\n") returns, so   *)
(* the empty string is << <<>> >>.  Han characters are written in pinyin:  *)
(*   di U+7B2C   juan U+5377   zhang U+7AE0   hui U+56DE    jie U+8282     *)
(*   n1..n9 U+4E00 U+4E8C U+4E09 U+56DB U+4E94 U+516D U+4E03 U+516B U+4E5D *)
(*   n10 U+5341  n100 U+767E   n1000 U+5343   n10000 U+4E07                *)
(*   xu U+5E8F   yan U+8A00    xie U+6954     zi U+5B50     yin U+5F15     *)
(*   qian U+524D kai U+5F00    pian U+7BC7    yuan U+7F18   qi U+8D77      *)
(*   ti U+9898   ji U+8BB0     zi4 U+81EA     dai U+4EE3    hou U+540E     *)
(*   wei U+5C3E  sheng U+58F0  jie2 U+7ED3    yu U+8BED     ba U+8DCB      *)
(*   wen U+6587  zhong U+7EC8  da U+5927      ju U+5C40     wan U+5B8C     *)
(*   gan U+611F  zuo U+4F5C    zhe U+8005     jian U+7B80   jie4 U+4ECB    *)
(*   nei U+5185  rong U+5BB9   gu U+6545      shi4 U+4E8B   geng U+6897    *)
(*   gai U+6982  pin U+54C1    xiao U+5C0F    shuo U+8BF4   shu U+4E66     *)
(*   ming U+540D biao U+6807   zhu U+8457     bian U+7F16   yuan2 U+539F   *)
(*   zhang1 U+5F20  shi3 U+59CB  fa U+53D1  zhan U+5C55  cheng U+6210      *)
(*   chang U+957F   zheng U+6B63   miao U+63CF  shu4 U+8FF0                *)
(*   feng U+5C01    mian U+9762    fen U+5206   lei U+7C7B   qian1 U+7B7E   *)
(*   fcomma U+FF0C  fsemi U+FF1B (full-width comma and semicolon)          *)
(*   fcolon U+FF1A (full-width colon)   dun U+3001 (enumeration comma)     *)
(***************************************************************************)
EXTENDS Integers, Sequences, FiniteSets, TLC

\* ------------------------------------------------------------------------
\* Character classes of the regular expressions (part_003, NewTxtFormat)
\* ------------------------------------------------------------------------

\* \s of Go's regexp (RE2): ASCII white space; a line is never split inside,
\* so only blank and tab occur.
WS == {" ", "tab"}

\* [0-9]
Digits == {"0", "1", "2", "3", "4", "5", "6", "7", "8", "9"}

DigitChars == <<"0", "1", "2", "3", "4", "5", "6", "7", "8", "9">>

\* the Han numerals of the volume and chapter patterns
HanNumerals == {"n1", "n2", "n3", "n4", "n5", "n6", "n7", "n8", "n9", "n10",
                "n100", "n1000", "n10000"}

\* the Han numerals of the section pattern (no n100, n1000, n10000)
HanSmall == {"n1", "n2", "n3", "n4", "n5", "n6", "n7", "n8", "n9", "n10"}

\* [0-9<Han numerals>]
NumeralClass == Digits \cup HanNumerals

\* [<fcolon>:\s]
ColonClass == WS \cup {":", "fcolon"}

\* [=\-*~]
SeparatorClass == {"=", "-", "*", "~"}

\* (?i): simple case folding of the Latin letters the patterns use
Lower(c) ==
    CASE c = "A" -> "a" [] c = "C" -> "c" [] c = "E" -> "e" [] c = "H" -> "h"
      [] c = "L" -> "l" [] c = "M" -> "m" [] c = "O" -> "o" [] c = "P" -> "p"
      [] c = "R" -> "r" [] c = "T" -> "t" [] c = "U" -> "u" [] c = "V" -> "v"
      [] OTHER -> c

\* ------------------------------------------------------------------------
\* String helpers
\* ------------------------------------------------------------------------

RECURSIVE SpanEnd(_, _, _)
\* the first index >= i of s whose character is not in S (Len(s)+1 if none):
\* where a greedy [S]* that starts at i stops
SpanEnd(s, i, S) ==
    IF i <= Len(s) /\ s[i] \in S THEN SpanEnd(s, i + 1, S) ELSE i

RECURSIVE SpanStart(_, _, _)
\* the last index <= i of s whose character is not in S (0 if none)
SpanStart(s, i, S) ==
    IF i >= 1 /\ s[i] \in S THEN SpanStart(s, i - 1, S) ELSE i

\* strings.TrimSpace on one line
TrimSpace(s) == SubSeq(s, SpanEnd(s, 1, WS), SpanStart(s, Len(s), WS))

\* the literal lit occurs in s at index i, up to case
LitAt(s, i, lit) ==
    /\ i + Len(lit) - 1 <= Len(s)
    /\ \A k \in 1..Len(lit) : Lower(s[i + k - 1]) = Lower(lit[k])

RECURSIVE FirstLit(_, _, _)
\* the alternation lits[k] | lits[k+1] | ... at the start of s: the index
\* after the first alternative that matches, 0 when none does
FirstLit(s, lits, k) ==
    IF k > Len(lits) THEN 0
    ELSE IF LitAt(s, 1, lits[k]) THEN Len(lits[k]) + 1
    ELSE FirstLit(s, lits, k + 1)

RECURSIVE IndexOf(_, _, _)
\* the first index >= i of s that holds c, 0 when there is none
IndexOf(s, c, i) ==
    IF i > Len(s) THEN 0
    ELSE IF s[i] = c THEN i
    ELSE IndexOf(s, c, i + 1)

\* strings.Split(s, ":")[0]
BeforeColon(s) ==
    LET p == IndexOf(s, ":", 1) IN IF p = 0 THEN s ELSE SubSeq(s, 1, p - 1)

RECURSIVE Itoa(_)
\* fmt.Sprintf("%d", n) for n >= 0
Itoa(n) ==
    IF n < 10 THEN <<DigitChars[n + 1]>>
    ELSE Itoa(n \div 10) \o <<DigitChars[(n % 10) + 1]>>

\* ------------------------------------------------------------------------
\* The patterns.  Each XMarkerEnd(s) is the index after the (?:...) group of
\* the pattern when the pattern matches the trimmed line s, and 0 when it
\* does not.  Every pattern is anchored, its tail \s*[<fcolon>:\s]*(.*)$
\* matches any rest, and no tail of an alternative can take a character of
\* its own greedy class, so the first alternative that matches a prefix is
\* the one the leftmost-first match uses.
\* ------------------------------------------------------------------------

\* di[N]+juan | juan[N]+ | Volume\s*[0-9]+ | VOLUME\s*[0-9]+
VolumeMarkerEnd(s) ==
    LET a == SpanEnd(s, 2, NumeralClass)
        w == SpanEnd(s, 7, WS)
        d == SpanEnd(s, w, Digits)
    IN  IF LitAt(s, 1, <<"di">>) /\ a > 2 /\ LitAt(s, a, <<"juan">>) THEN a + 1
        ELSE IF LitAt(s, 1, <<"juan">>) /\ a > 2 THEN a
        ELSE IF LitAt(s, 1, <<"V", "o", "l", "u", "m", "e">>) /\ d > w THEN d
        ELSE 0

\* di[N]+[zhang hui] | [zhang hui][N]+ | Chapter\s*[0-9]+ |
\* [0-9]{1,4}[\. dun \s] | di[0-9]{1,4}[zhang hui] | [0-9]{1,4}zhang
ChapterMarkerEnd(s) ==
    LET a == SpanEnd(s, 2, NumeralClass)
        w == SpanEnd(s, 8, WS)
        d == SpanEnd(s, w, Digits)
        n == SpanEnd(s, 1, Digits)
        f == SpanEnd(s, 2, Digits)
    IN  IF /\ LitAt(s, 1, <<"di">>) /\ a > 2 /\ a <= Len(s)
           /\ s[a] \in {"zhang", "hui"} THEN a + 1
        ELSE IF Len(s) >= 1 /\ s[1] \in {"zhang", "hui"} /\ a > 2 THEN a
        ELSE IF LitAt(s, 1, <<"C", "h", "a", "p", "t", "e", "r">>) /\ d > w THEN d
        ELSE IF /\ n > 1 /\ n <= 5 /\ n <= Len(s)
                /\ s[n] \in ({".", "dun"} \cup WS) THEN n + 1
        ELSE IF /\ LitAt(s, 1, <<"di">>) /\ f > 2 /\ f <= 6 /\ f <= Len(s)
                /\ s[f] \in {"zhang", "hui"} THEN f + 1
        ELSE IF n > 1 /\ n <= 5 /\ LitAt(s, n, <<"zhang">>) THEN n + 1
        ELSE 0

\* di[0-9 n1..n10]+jie | [0-9]+\.[0-9]+ | [n1..n10]+dun | \([n1..n10 0-9]+\)
SectionMarkerEnd(s) ==
    LET a == SpanEnd(s, 2, Digits \cup HanSmall)
        n == SpanEnd(s, 1, Digits)
        m == SpanEnd(s, n + 1, Digits)
        h == SpanEnd(s, 1, HanSmall)
    IN  IF LitAt(s, 1, <<"di">>) /\ a > 2 /\ LitAt(s, a, <<"jie">>) THEN a + 1
        ELSE IF n > 1 /\ LitAt(s, n, <<".">>) /\ m > n + 1 THEN m
        ELSE IF h > 1 /\ LitAt(s, h, <<"dun">>) THEN h + 1
        ELSE IF LitAt(s, 1, <<"(">>) /\ a > 2 /\ LitAt(s, a, <<")">>) THEN a + 1
        ELSE 0

\* xu yan? | xie zi | yin zi | qian yan | kai pian | yuan qi | ti ji |
\* zi4 xu | dai xu      (the greedy yan? tries "xu yan" before "xu")
PrologueWords ==
    << <<"xu", "yan">>, <<"xu">>, <<"xie", "zi">>, <<"yin", "zi">>,
       <<"qian", "yan">>, <<"kai", "pian">>, <<"yuan", "qi">>,
       <<"ti", "ji">>, <<"zi4", "xu">>, <<"dai", "xu">> >>

PrologueMarkerEnd(s) == FirstLit(s, PrologueWords, 1)

\* hou ji | wei sheng | jie2 yu | ba | ba wen | jie2 wei | zhong zhang |
\* da jie2 ju | wan jie2 gan yan | zuo zhe hou ji
EpilogueWords ==
    << <<"hou", "ji">>, <<"wei", "sheng">>, <<"jie2", "yu">>, <<"ba">>,
       <<"ba", "wen">>, <<"jie2", "wei">>, <<"zhong", "zhang">>,
       <<"da", "jie2", "ju">>, <<"wan", "jie2", "gan", "yan">>,
       <<"zuo", "zhe", "hou", "ji">> >>

EpilogueMarkerEnd(s) == FirstLit(s, EpilogueWords, 1)

\* jian jie4 | nei rong jian jie4 | gu shi4 geng gai | nei rong geng gai |
\* zuo pin jian jie4 | xiao shuo jian jie4
SummaryWords ==
    << <<"jian", "jie4">>, <<"nei", "rong", "jian", "jie4">>,
       <<"gu", "shi4", "geng", "gai">>, <<"nei", "rong", "geng", "gai">>,
       <<"zuo", "pin", "jian", "jie4">>, <<"xiao", "shuo", "jian", "jie4">> >>

SummaryMarkerEnd(s) == FirstLit(s, SummaryWords, 1)

\* the group (.*) of a structural pattern whose marker ends before index e:
\* \s*[<fcolon>:\s]* is greedy and (.*) takes the rest
Capture(s, e) == SubSeq(s, SpanEnd(s, e, ColonClass), Len(s))

\* ^\s*[=\-*~]{3,}\s*$
IsSeparator(line) ==
    LET a == SpanEnd(line, 1, WS)
        b == SpanEnd(line, a, SeparatorClass)
    IN  b - a >= 3 /\ SpanEnd(line, b, WS) = Len(line) + 1

\* strings.TrimSpace(line) == ""
IsEmptyLine(line) == TrimSpace(line) = <<>>


\* ------------------------------------------------------------------------
\* TxtFormat (part_003)
\* ------------------------------------------------------------------------

\* ChapterType (part_003:65-73)
ChapterTypeUnknown == "Unknown"
ChapterTypeVolume == "Volume"
ChapterTypeChapter == "Chapter"
ChapterTypeSection == "Section"
ChapterTypePrologue == "Prologue"
ChapterTypeEpilogue == "Epilogue"
ChapterTypeSummary == "Summary"

\* the title of a prologue, epilogue or summary line: the group, or the
\* whole match when the group is empty
WordTitle(s, e) ==
    LET title == TrimSpace(Capture(s, e))
    IN  IF title = <<>> THEN TrimSpace(s) ELSE title

\* the title of a volume, chapter or section line: the group, or the match
\* up to its first ASCII colon when the group is empty
MarkerTitle(s, e) ==
    LET title == TrimSpace(Capture(s, e))
    IN  IF title = <<>> THEN TrimSpace(BeforeColon(s)) ELSE title

\* IdentifyChapterType with the section pattern tried before the chapter
\* pattern
IdentifyChapterType_SectionFirst(line) ==
    LET s == TrimSpace(line)
        p == PrologueMarkerEnd(s)
        e == EpilogueMarkerEnd(s)
        u == SummaryMarkerEnd(s)
        v == VolumeMarkerEnd(s)
        c == ChapterMarkerEnd(s)
        n == SectionMarkerEnd(s)
    IN  IF p # 0 THEN [type |-> ChapterTypePrologue, title |-> WordTitle(s, p)]
        ELSE IF e # 0 THEN [type |-> ChapterTypeEpilogue, title |-> WordTitle(s, e)]
        ELSE IF u # 0 THEN [type |-> ChapterTypeSummary, title |-> WordTitle(s, u)]
        ELSE IF v # 0 THEN [type |-> ChapterTypeVolume, title |-> MarkerTitle(s, v)]
        ELSE IF n # 0 THEN [type |-> ChapterTypeSection, title |-> MarkerTitle(s, n)]
        ELSE IF c # 0 THEN [type |-> ChapterTypeChapter, title |-> MarkerTitle(s, c)]
        ELSE [type |-> ChapterTypeUnknown, title |-> <<>>]

IdentifyChapterType(line) ==
    LET s == TrimSpace(line)
        p == PrologueMarkerEnd(s)
        e == EpilogueMarkerEnd(s)
        u == SummaryMarkerEnd(s)
        v == VolumeMarkerEnd(s)
        c == ChapterMarkerEnd(s)
        n == SectionMarkerEnd(s)
    IN  IF p # 0 THEN [type |-> ChapterTypePrologue, title |-> WordTitle(s, p)]
        ELSE IF e # 0 THEN [type |-> ChapterTypeEpilogue, title |-> WordTitle(s, e)]
        ELSE IF u # 0 THEN [type |-> ChapterTypeSummary, title |-> WordTitle(s, u)]
        ELSE IF v # 0 THEN [type |-> ChapterTypeVolume, title |-> MarkerTitle(s, v)]
        ELSE IF c # 0 THEN [type |-> ChapterTypeChapter, title |-> MarkerTitle(s, c)]
        ELSE IF n # 0 THEN [type |-> ChapterTypeSection, title |-> MarkerTitle(s, n)]
        ELSE [type |-> ChapterTypeUnknown, title |-> <<>>]

\* shu ming | biao ti | xiao shuo ming | zuo pin ming
TitleKeys ==
    << <<"shu", "ming">>, <<"biao", "ti">>, <<"xiao", "shuo", "ming">>,
       <<"zuo", "pin", "ming">> >>

\* zuo zhe | Author | zhu | bian zhu | yuan2 zhu
AuthorKeys ==
    << <<"zuo", "zhe">>, <<"A", "u", "t", "h", "o", "r">>, <<"zhu">>,
       <<"bian", "zhu">>, <<"yuan2", "zhu">> >>

\* jian jie4 | nei rong jian jie4 | gu shi4 jian jie4 | zuo pin jian jie4
IntroKeys ==
    << <<"jian", "jie4">>, <<"nei", "rong", "jian", "jie4">>,
       <<"gu", "shi4", "jian", "jie4">>, <<"zuo", "pin", "jian", "jie4">> >>

\* the tail \s*[<fcolon>:\s]+(.+)$ after a key that ends before index e:
\* <<TRUE, group>> when it matches.  The colon run is greedy; when it runs
\* to the end of the line it gives its last character back to (.+).
ValueTail(s, e) ==
    LET t == SpanEnd(s, e, ColonClass)
    IN  IF e = 0 \/ t = e THEN <<FALSE, <<>>>>
        ELSE IF t <= Len(s) THEN <<TRUE, SubSeq(s, t, Len(s))>>
        ELSE IF t - e >= 2 THEN <<TRUE, <<s[Len(s)]>>>>
        ELSE <<FALSE, <<>>>>

ExtractMetadata(line) ==
    LET s == TrimSpace(line)
        ti == ValueTail(s, FirstLit(s, TitleKeys, 1))
        au == ValueTail(s, FirstLit(s, AuthorKeys, 1))
        in == FirstLit(s, IntroKeys, 1)
    IN  IF ti[1] THEN [key |-> "title", value |-> TrimSpace(ti[2])]
        ELSE IF au[1] THEN [key |-> "author", value |-> TrimSpace(au[2])]
        ELSE IF in # 0 THEN [key |-> "description", value |-> TrimSpace(Capture(s, in))]
        ELSE [key |-> "", value |-> <<>>]

\* the empty string, as a text
EmptyText == << <<>> >>

\* strings.Join(ls, "\n"), as a text: joining no line gives the empty string
JoinLines(ls) == IF ls = <<>> THEN EmptyText ELSE ls

RECURSIVE CleanLoop_KeepThree(_, _, _, _)
\* CleanLoop that keeps up to three empty lines in a row
CleanLoop_KeepThree(ls, k, emptyCount, cleanLines) ==
    IF k > Len(ls) THEN cleanLines
    ELSE IF IsEmptyLine(ls[k])
      THEN CleanLoop_KeepThree(ls, k + 1, emptyCount + 1,
                     IF emptyCount + 1 <= 3 THEN Append(cleanLines, <<>>)
                     ELSE cleanLines)
      ELSE CleanLoop_KeepThree(ls, k + 1, 0, Append(cleanLines, TrimSpace(ls[k])))

RECURSIVE CleanLoop(_, _, _, _)
\* the loop of CleanContent over lines[k..], with emptyCount and cleanLines
CleanLoop(ls, k, emptyCount, cleanLines) ==
    IF k > Len(ls) THEN cleanLines
    ELSE IF IsEmptyLine(ls[k])
      THEN CleanLoop(ls, k + 1, emptyCount + 1,
                     IF emptyCount + 1 <= 2 THEN Append(cleanLines, <<>>)
                     ELSE cleanLines)
      ELSE CleanLoop(ls, k + 1, 0, Append(cleanLines, TrimSpace(ls[k])))

\* DropLeadingEmpty that removes one empty line only
DropLeadingEmpty_One(ls) ==
    IF Len(ls) > 0 /\ ls[1] = <<>> THEN Tail(ls) ELSE ls

RECURSIVE DropLeadingEmpty(_)
DropLeadingEmpty(ls) ==
    IF Len(ls) > 0 /\ ls[1] = <<>> THEN DropLeadingEmpty(Tail(ls)) ELSE ls

RECURSIVE DropTrailingEmpty(_)
DropTrailingEmpty(ls) ==
    IF Len(ls) > 0 /\ ls[Len(ls)] = <<>>
      THEN DropTrailingEmpty(SubSeq(ls, 1, Len(ls) - 1))
      ELSE ls

CleanContent(content) ==
    JoinLines(DropTrailingEmpty(DropLeadingEmpty(CleanLoop(content, 1, 0, <<>>))))

\* strings.TrimSpace(content) == "" for a text: newlines are white space
IsBlankText(content) == \A k \in 1..Len(content) : IsEmptyLine(content[k])


\* ------------------------------------------------------------------------
\* The state-machine parser (state.go)
\* ------------------------------------------------------------------------

\* the literal 20 of MetadataState.HandleLine
MetadataLookahead == 20

\* the literal 50 of parseContentOld
OldMetadataLimit == 50

\* Chapter (novel.go:31-39), with the fields the parsers set
NewChapter(id, title) == [ID |-> id, Title |-> title, Content |-> EmptyText]

\* Novel (novel.go:19-28) as its callers create it; Category and Tags are
\* the fields setNovelMetadata writes
NewNovel(title) ==
    [Title |-> title, Author |-> <<>>, Description |-> <<>>, Cover |-> <<>>,
     Category |-> <<>>, Tags |-> <<>>, Chapters |-> <<>>]

\* a pointer that may be nil is a sequence of length 0 or 1
Nil == <<>>

NewParseContext ==
    [currentChapter |-> Nil, contentLines |-> <<>>, chapterID |-> 0,
     volumeID |-> 0, sectionID |-> 0, state |-> "Metadata",
     chapterTypes |-> <<>>, inMetadata |-> FALSE, metadataLines |-> 0]

\* ParseContext.SaveCurrentChapter; the result is <<context, novel>>
SaveCurrentChapter(c, nv) ==
    IF c.currentChapter # Nil /\ Len(c.contentLines) > 0
      THEN LET ch == [c.currentChapter[1] EXCEPT
                         !.Content = CleanContent(JoinLines(c.contentLines))]
           IN  << [c EXCEPT !.currentChapter = <<ch>>, !.contentLines = <<>>],
                  [nv EXCEPT !.Chapters = Append(@, ch)] >>
      ELSE <<c, nv>>

\* the state a marker of type t leads to
StateAfter(t) ==
    IF t = ChapterTypePrologue THEN "Prologue"
    ELSE IF t = ChapterTypeEpilogue THEN "Epilogue"
    ELSE IF t = ChapterTypeVolume THEN "Volume"
    ELSE "Chapter"

\* the counters after a marker of type t
\* CountMarker with a volume that keeps the chapter index
CountMarker_NoReset(c, t) ==
    IF t = ChapterTypeVolume
      THEN [c EXCEPT !.volumeID = @ + 1, !.sectionID = 0]
    ELSE IF t = ChapterTypeChapter
      THEN [c EXCEPT !.chapterID = @ + 1, !.sectionID = 0]
    ELSE IF t = ChapterTypeSection
      THEN [c EXCEPT !.sectionID = @ + 1]
    ELSE c


\* CountMarker that also counts a Prologue line as a chapter
CountMarker_Prologue(c, t) ==
    IF t = ChapterTypeVolume
      THEN [c EXCEPT !.volumeID = @ + 1, !.chapterID = 0, !.sectionID = 0]
    ELSE IF t \in {ChapterTypeChapter, ChapterTypePrologue}
      THEN [c EXCEPT !.chapterID = @ + 1, !.sectionID = 0]
    ELSE IF t = ChapterTypeSection
      THEN [c EXCEPT !.sectionID = @ + 1]
    ELSE c

CountMarker(c, t) ==
    IF t = ChapterTypeVolume
      THEN [c EXCEPT !.volumeID = @ + 1, !.chapterID = 0, !.sectionID = 0]
    ELSE IF t = ChapterTypeChapter
      THEN [c EXCEPT !.chapterID = @ + 1, !.sectionID = 0]
    ELSE IF t = ChapterTypeSection
      THEN [c EXCEPT !.sectionID = @ + 1]
    ELSE c

\* OpenedChapterID that follows the chapter counter of a context with
\* nothing saved
OpenedChapterID_FromZero(nv) == Len(nv.Chapters)

\* the ID ContentState.HandleLine gives the chapter it opens
OpenedChapterID(nv) == Len(nv.Chapters) + 1

\* ContentState.HandleLine after its separator test: a marker line closes
\* the open chapter and opens the next, any other line is content
HandleContentLine(c, nv, line) ==
    LET id == IdentifyChapterType(line)
    IN  IF id.type # ChapterTypeUnknown
          THEN LET saved == SaveCurrentChapter(c, nv)
                   counted == CountMarker(saved[1], id.type)
               IN  << [counted EXCEPT
                          !.currentChapter =
                              <<NewChapter(OpenedChapterID(saved[2]), id.title)>>,
                          !.chapterTypes = Append(@, id.type),
                          !.state = StateAfter(id.type)],
                      saved[2] >>
          ELSE << [c EXCEPT !.contentLines = Append(@, line)], nv >>

\* ContentState.HandleLine without its separator test
ContentStateHandleLine_KeepSeparator(c, nv, rawLine, lineNumber) ==
    HandleContentLine(c, nv, TrimSpace(rawLine))

\* ContentState.HandleLine; the result is <<context, novel>>
ContentStateHandleLine(c, nv, rawLine, lineNumber) ==
    IF IsSeparator(TrimSpace(rawLine)) THEN <<c, nv>>
    ELSE HandleContentLine(c, nv, TrimSpace(rawLine))

\* the switch of MetadataState.HandleLine on the key
SetStateMetadata(nv, key, value) ==
    IF key = "title" THEN [nv EXCEPT !.Title = value]
    ELSE IF key = "author" THEN [nv EXCEPT !.Author = value]
    ELSE IF key = "description" THEN [nv EXCEPT !.Description = value]
    ELSE nv

\* MetadataState.HandleLine that keeps a line it does not recognise as
\* content
MetadataStateHandleLine_KeepLine(c, nv, rawLine, lineNumber) ==
    LET line == TrimSpace(rawLine)
        md == ExtractMetadata(line)
    IN  IF line = <<>> THEN <<c, nv>>
        ELSE IF IsSeparator(line)
          THEN << [c EXCEPT !.inMetadata = FALSE, !.metadataLines = lineNumber,
                            !.state = "Content"], nv >>
        ELSE IF md.key # "" THEN <<c, SetStateMetadata(nv, md.key, md.value)>>
        ELSE IF lineNumber > MetadataLookahead
          THEN ContentStateHandleLine([c EXCEPT !.state = "Content"], nv,
                                      line, lineNumber)
        ELSE << [c EXCEPT !.contentLines = Append(@, line)], nv >>

\* MetadataState.HandleLine; the result is <<context, novel>>
MetadataStateHandleLine(c, nv, rawLine, lineNumber) ==
    LET line == TrimSpace(rawLine)
        md == ExtractMetadata(line)
    IN  IF line = <<>> THEN <<c, nv>>
        ELSE IF IsSeparator(line)
          THEN << [c EXCEPT !.inMetadata = FALSE, !.metadataLines = lineNumber,
                            !.state = "Content"], nv >>
        ELSE IF md.key # "" THEN <<c, SetStateMetadata(nv, md.key, md.value)>>
        ELSE IF lineNumber > MetadataLookahead
          THEN ContentStateHandleLine([c EXCEPT !.state = "Content"], nv,
                                      line, lineNumber)
        ELSE <<c, nv>>

\* ChapterState, VolumeState, PrologueState and EpilogueState.HandleLine:
\* each calls NewContentState().HandleLine
\* ChapterState.HandleLine that takes every line as content
ChapterStateHandleLine_AllContent(c, nv, rawLine, lineNumber) ==
    << [c EXCEPT !.contentLines = Append(@, TrimSpace(rawLine))], nv >>

ChapterStateHandleLine(c, nv, rawLine, lineNumber) ==
    ContentStateHandleLine(c, nv, rawLine, lineNumber)

VolumeStateHandleLine(c, nv, rawLine, lineNumber) ==
    ContentStateHandleLine(c, nv, rawLine, lineNumber)

PrologueStateHandleLine(c, nv, rawLine, lineNumber) ==
    ContentStateHandleLine(c, nv, rawLine, lineNumber)

EpilogueStateHandleLine(c, nv, rawLine, lineNumber) ==
    ContentStateHandleLine(c, nv, rawLine, lineNumber)

\* ParseContext.HandleLine: the call goes to the state the context is in
HandleLine(c, nv, rawLine, lineNumber) ==
    CASE c.state = "Metadata" -> MetadataStateHandleLine(c, nv, rawLine, lineNumber)
      [] c.state = "Content" -> ContentStateHandleLine(c, nv, rawLine, lineNumber)
      [] c.state = "Chapter" -> ChapterStateHandleLine(c, nv, rawLine, lineNumber)
      [] c.state = "Volume" -> VolumeStateHandleLine(c, nv, rawLine, lineNumber)
      [] c.state = "Prologue" -> PrologueStateHandleLine(c, nv, rawLine, lineNumber)
      [] c.state = "Epilogue" -> EpilogueStateHandleLine(c, nv, rawLine, lineNumber)

RECURSIVE ParseLoop(_, _, _, _)
\* the loop of ParseWithState from index k - 1 on, then SaveCurrentChapter:
\* the Novel the call leaves
ParseLoop(c, nv, ls, k) ==
    IF k > Len(ls) THEN SaveCurrentChapter(c, nv)[2]
    ELSE LET r == HandleLine(c, nv, ls[k], k - 1)
         IN  ParseLoop(r[1], r[2], ls, k + 1)

\* ParseWithState(novel, lines) run from start to end
ParseWithState(nv, ls) == ParseLoop(NewParseContext, nv, ls, 1)

\* two calls that share one ParseContext
ContextOf_Shared(call) == 1

\* the ParseContext of a call: ParseWithState makes a new one at its start
ContextOf(call) == call

\* ------------------------------------------------------------------------
\* The legacy routine (txt_strategy.go)
\* ------------------------------------------------------------------------

RECURSIVE SplitTags(_, _, _)
\* strings.FieldsFunc(value, r is one of , ; and their full-width forms),
\* each field then trimmed: fields are the maximal runs without a delimiter
SplitTags(value, k, field) ==
    IF k > Len(value)
      THEN IF field = <<>> THEN <<>> ELSE <<TrimSpace(field)>>
    ELSE IF value[k] \in {",", ";", "fcomma", "fsemi"}
      THEN (IF field = <<>> THEN <<>> ELSE <<TrimSpace(field)>>)
           \o SplitTags(value, k + 1, <<>>)
    ELSE SplitTags(value, k + 1, Append(field, value[k]))

setNovelMetadata(nv, key, value) ==
    IF key = "title" THEN [nv EXCEPT !.Title = value]
    ELSE IF key = "author" THEN [nv EXCEPT !.Author = value]
    ELSE IF key = "description" THEN [nv EXCEPT !.Description = value]
    ELSE IF key = "category" THEN [nv EXCEPT !.Category = value]
    ELSE IF key = "tags" THEN [nv EXCEPT !.Tags = SplitTags(value, 1, <<>>)]
    ELSE nv

getChapterLevel(t) ==
    IF t = ChapterTypeVolume THEN 1
    ELSE IF t = ChapterTypeChapter THEN 2
    ELSE IF t = ChapterTypeSection THEN 3
    ELSE 2

\* the locals of parseContentOld before its loop
NewOldLocals ==
    [txtChapters |-> <<>>, currentChapter |-> Nil, contentLines |-> <<>>,
     currentVolumeID |-> 0, currentChapterID |-> 0, currentSectionID |-> 0,
     inMetadata |-> TRUE, metadataEndLine |-> 0]

\* the counters of parseContentOld after a marker of type t
OldCountMarker(o, t) ==
    IF t = ChapterTypeVolume
      THEN [o EXCEPT !.currentVolumeID = @ + 1, !.currentChapterID = 0,
                     !.currentSectionID = 0]
    ELSE IF t = ChapterTypeChapter
      THEN [o EXCEPT !.currentChapterID = @ + 1, !.currentSectionID = 0]
    ELSE IF t = ChapterTypeSection
      THEN [o EXCEPT !.currentSectionID = @ + 1]
    ELSE o

\* "save the previous chapter" of parseContentOld, with LineEnd = lineEnd
OldSaveChapter(o, lineEnd) ==
    IF o.currentChapter # Nil
      THEN LET ch == [o.currentChapter[1] EXCEPT
                         !.Content = CleanContent(JoinLines(o.contentLines)),
                         !.LineEnd = lineEnd]
           IN  [o EXCEPT !.currentChapter = <<ch>>,
                         !.txtChapters = Append(@, ch)]
      ELSE o

\* one iteration of the loop of parseContentOld on lines[i] (i from 0);
\* the result is <<locals, novel>>
ParseContentOldLine(o, nv, rawLine, i) ==
    LET line == TrimSpace(rawLine)
        md == ExtractMetadata(line)
        id == IdentifyChapterType(line)
    IN  IF IsEmptyLine(line)
          THEN IF o.inMetadata /\ Len(o.contentLines) = 0 THEN <<o, nv>>
               ELSE << [o EXCEPT !.contentLines = Append(@, <<>>)], nv >>
        ELSE IF IsSeparator(line)
          THEN IF o.inMetadata
                 THEN << [o EXCEPT !.metadataEndLine = i, !.inMetadata = FALSE], nv >>
                 ELSE <<o, nv>>
        ELSE IF o.inMetadata /\ i < OldMetadataLimit /\ md.key # ""
          THEN <<o, setNovelMetadata(nv, md.key, md.value)>>
        ELSE IF id.type # ChapterTypeUnknown
          THEN LET saved == OldSaveChapter(o, i - 1)
                   counted == OldCountMarker(saved, id.type)
               IN  << [counted EXCEPT
                          !.currentChapter =
                              << [Type |-> id.type,
                                  Level |-> getChapterLevel(id.type),
                                  VolumeID |-> counted.currentVolumeID,
                                  ChapterID |-> counted.currentChapterID,
                                  SectionID |-> counted.currentSectionID,
                                  Title |-> id.title, Content |-> EmptyText,
                                  LineStart |-> i, LineEnd |-> 0] >>,
                          !.contentLines = <<>>,
                          !.inMetadata = FALSE],
                      nv >>
        ELSE IF ~o.inMetadata
          THEN << [o EXCEPT !.contentLines = Append(@, line)], nv >>
        ELSE <<o, nv>>

\* the chapter parseContentOld makes of the whole file when it found none
FallbackChapter(ls, metadataEndLine) ==
    [Type |-> ChapterTypeChapter, Level |-> 2, VolumeID |-> 1, ChapterID |-> 1,
     SectionID |-> 0, Title |-> <<"zheng", "wen">>,
     Content |-> CleanContent(SubSeq(ls, metadataEndLine + 1, Len(ls))),
     LineStart |-> metadataEndLine, LineEnd |-> Len(ls) - 1]

\* the title prefix fmt.Sprintf gives: di <n> <unit>
Numbered(n, unit, title) ==
    IF title # <<>> THEN <<"di">> \o Itoa(n) \o <<unit, " ">> \o title
    ELSE <<"di">> \o Itoa(n) \o <<unit>>

generateChapterTitle(txtChapter) ==
    IF txtChapter.Type = ChapterTypeVolume
      THEN Numbered(txtChapter.VolumeID, "juan", txtChapter.Title)
    ELSE IF txtChapter.Type = ChapterTypeChapter
      THEN Numbered(txtChapter.ChapterID, "zhang", txtChapter.Title)
    ELSE IF txtChapter.Type = ChapterTypeSection
      THEN Numbered(txtChapter.SectionID, "jie", txtChapter.Title)
    ELSE IF txtChapter.Type \in {ChapterTypePrologue, ChapterTypeEpilogue,
                                 ChapterTypeSummary}
      THEN txtChapter.Title
    ELSE IF txtChapter.Title # <<>> THEN txtChapter.Title
    ELSE Numbered(txtChapter.ChapterID, "zhang", <<>>)

\* the ID convertToStandardChapters gives the chapter it appends to chapters
ConvertedChapterID(chapters) == Len(chapters) + 1

RECURSIVE ConvertLoop(_, _, _)
\* the loop of convertToStandardChapters over txtChapters[k..]; its local
\* chapterID counts the chapters appended so far
ConvertLoop(txtChapters, k, chapters) ==
    IF k > Len(txtChapters) THEN chapters
    ELSE IF IsBlankText(txtChapters[k].Content)
      THEN ConvertLoop(txtChapters, k + 1, chapters)
    ELSE ConvertLoop(txtChapters, k + 1,
             Append(chapters,
                    [ID |-> ConvertedChapterID(chapters),
                     Title |-> generateChapterTitle(txtChapters[k]),
                     Content |-> txtChapters[k].Content]))

\* convertToStandardChapters appends to novel.Chapters
convertToStandardChapters(nv, txtChapters) ==
    [nv EXCEPT !.Chapters = @ \o ConvertLoop(txtChapters, 1, <<>>)]

RECURSIVE OldLoop(_, _, _, _)
\* the loop of parseContentOld from index k - 1 on: <<locals, novel>>
OldLoop(o, nv, ls, k) ==
    IF k > Len(ls) THEN <<o, nv>>
    ELSE LET r == ParseContentOldLine(o, nv, ls[k], k - 1)
         IN  OldLoop(r[1], r[2], ls, k + 1)

\* parseContentOld(novel, content) run from start to end: the Novel it leaves
parseContentOld(nv, ls) ==
    LET r == OldLoop(NewOldLocals, nv, ls, 1)
        saved == OldSaveChapter(r[1], Len(ls) - 1)
        all == IF Len(saved.txtChapters) = 0
                 THEN <<FallbackChapter(ls, saved.metadataEndLine)>>
                 ELSE saved.txtChapters
    IN  convertToStandardChapters(r[2], all)


\* ------------------------------------------------------------------------
\* The numeral functions (part_003)
\* ------------------------------------------------------------------------

\* the characters of the map chineseNums, in the order of their values
ChineseNums ==
    <<"n1", "n2", "n3", "n4", "n5", "n6", "n7", "n8", "n9", "n10">>

RECURSIVE NumberLoop(_, _, _, _)
\* the loop of parseChineseNumber over chinese[k..], with result and temp; a
\* character that is not in the map is skipped
NumberLoop(chinese, k, result, temp) ==
    IF k > Len(chinese) THEN result + temp
    ELSE IF chinese[k] = "n10"
      THEN NumberLoop(chinese, k + 1,
                      result + (IF temp = 0 THEN 1 ELSE temp) * 10, 0)
    ELSE IF chinese[k] = "n100"
      THEN NumberLoop(chinese, k + 1, result + temp * 100, 0)
    ELSE IF chinese[k] = "n1000"
      THEN NumberLoop(chinese, k + 1, result + temp * 1000, 0)
    ELSE IF chinese[k] = "n10000"
      THEN NumberLoop(chinese, k + 1, result + temp * 10000, 0)
    ELSE IF \E v \in 1..9 : ChineseNums[v] = chinese[k]
      THEN NumberLoop(chinese, k + 1, result,
                      CHOOSE v \in 1..9 : ChineseNums[v] = chinese[k])
    ELSE NumberLoop(chinese, k + 1, result, temp)

parseChineseNumber(chinese) == NumberLoop(chinese, 1, 0, 0)

RECURSIVE FirstIn(_, _, _)
\* the first index >= k of s whose character is in S, 0 when there is none:
\* where the leftmost match of [S]+ starts
FirstIn(s, k, S) ==
    IF k > Len(s) THEN 0
    ELSE IF s[k] \in S THEN k
    ELSE FirstIn(s, k + 1, S)

\* regexp.FindString of [S]+ : the leftmost longest run, "" when none
FindRun(s, S) ==
    LET b == FirstIn(s, 1, S)
    IN  IF b = 0 THEN <<>> ELSE SubSeq(s, b, SpanEnd(s, b, S) - 1)

\* ExtractNumber that answers 1 when it finds no numeral
ExtractNumber_DefaultOne(title) ==
    LET digits == FindRun(title, Digits)
        chinese == FindRun(title, HanNumerals)
    IN  IF digits # <<>> /\ parseChineseNumber(digits) > 0
          THEN parseChineseNumber(digits)
        ELSE IF chinese # <<>> THEN parseChineseNumber(chinese)
        ELSE 1

\* TxtFormat.ExtractNumber
ExtractNumber(title) ==
    LET digits == FindRun(title, Digits)
        chinese == FindRun(title, HanNumerals)
    IN  IF digits # <<>> /\ parseChineseNumber(digits) > 0
          THEN parseChineseNumber(digits)
        ELSE IF chinese # <<>> THEN parseChineseNumber(chinese)
        ELSE 0

\* ------------------------------------------------------------------------
\* The Markdown directory parser (novel.go)
\* ------------------------------------------------------------------------

\* the bytes of file names, in byte order
ByteOrder ==
    <<"-", ".", "0", "1", "2", "3", "4", "5", "6", "7", "8", "9", "_",
      "a", "d", "e", "m", "t">>

ByteRank(c) == CHOOSE r \in 1..Len(ByteOrder) : ByteOrder[r] = c

RECURSIVE LessFrom(_, _, _)
\* Go's < on strings that agree before index k
LessFrom(a, b, k) ==
    IF k > Len(a) THEN k <= Len(b)
    ELSE IF k > Len(b) THEN FALSE
    ELSE IF a[k] = b[k] THEN LessFrom(a, b, k + 1)
    ELSE ByteRank(a[k]) < ByteRank(b[k])

\* a < b on strings
Less(a, b) == LessFrom(a, b, 1)

MdSuffix == <<".", "m", "d">>

\* strings.TrimSuffix(name, ".md")
TrimSuffixMd(name) ==
    IF Len(name) >= 3 /\ SubSeq(name, Len(name) - 2, Len(name)) = MdSuffix
      THEN SubSeq(name, 1, Len(name) - 3)
      ELSE name

RECURSIVE Atoi(_)
\* strconv.Atoi on a string of digits
Atoi(ds) ==
    IF ds = <<>> THEN 0
    ELSE 10 * Atoi(SubSeq(ds, 1, Len(ds) - 1))
         + (CHOOSE v \in 0..9 : DigitChars[v + 1] = ds[Len(ds)])

\* metaRegex ^---\s*$
IsMetaRule(line) ==
    /\ Len(line) >= 3
    /\ SubSeq(line, 1, 3) = <<"-", "-", "-">>
    /\ SpanEnd(line, 4, WS) = Len(line) + 1

\* the literal lit occurs in s at index i, case kept
ExactAt(s, i, lit) ==
    /\ i + Len(lit) - 1 <= Len(s)
    /\ SubSeq(s, i, i + Len(lit) - 1) = lit

\* the group (.+) of chapterRegex when the number of the marker ends before
\* index e of s and lo is the least end its digits allow: \s* is greedy and
\* gives back a character, then the digits do, when the group would be empty
MdGroup(s, e, lo) ==
    LET r == SpanEnd(s, e, WS)
    IN  IF r <= Len(s) THEN <<SubSeq(s, r, Len(s))>>
        ELSE IF r > e THEN <<SubSeq(s, Len(s), Len(s))>>
        ELSE IF e - 1 >= lo THEN <<SubSeq(s, Len(s), Len(s))>>
        ELSE Nil

\* chapterRegex of Parser on a line: Nil, or <<group 1>>
\* ^#+\s*(?:di[numerals]+[juan zhang hui]|Chapter\s*\d+|Volume\s*\d+|[0-9]+\.)\s*(.+)
MdChapterMatch(s) ==
    LET h == SpanEnd(s, 1, {"#"})
        w == SpanEnd(s, h, WS)
        a == SpanEnd(s, w + 1, NumeralClass)
        cw == SpanEnd(s, w + 7, WS)
        cd == SpanEnd(s, cw, Digits)
        vw == SpanEnd(s, w + 6, WS)
        vd == SpanEnd(s, vw, Digits)
        n == SpanEnd(s, w, Digits)
    IN  IF h = 1 THEN Nil
        ELSE IF /\ ExactAt(s, w, <<"di">>) /\ a > w + 1 /\ a <= Len(s)
                /\ s[a] \in {"juan", "zhang", "hui"}
          THEN MdGroup(s, a + 1, a + 1)
        ELSE IF ExactAt(s, w, <<"C", "h", "a", "p", "t", "e", "r">>) /\ cd > cw
          THEN MdGroup(s, cd, cw + 1)
        ELSE IF ExactAt(s, w, <<"V", "o", "l", "u", "m", "e">>) /\ vd > vw
          THEN MdGroup(s, vd, vw + 1)
        ELSE IF n > w /\ n <= Len(s) /\ s[n] = "."
          THEN MdGroup(s, n + 1, n + 1)
        ELSE Nil

\* Novel as ParseNovel creates it
NewMdNovel ==
    [Title |-> <<>>, Author |-> <<>>, Description |-> <<>>, Cover |-> <<>>,
     Chapters |-> <<>>]

\* strings.ToLower
ToLower(s) == [k \in 1..Len(s) |-> Lower(s[k])]

parseMetaLine(nv, line) ==
    LET p == IndexOf(line, ":", 1)
        key == ToLower(TrimSpace(SubSeq(line, 1, p - 1)))
        value == TrimSpace(SubSeq(line, p + 1, Len(line)))
    IN  IF p = 0 THEN nv
        ELSE IF key \in {<<"t", "i", "t", "l", "e">>, <<"biao", "ti">>}
          THEN [nv EXCEPT !.Title = value]
        ELSE IF key \in {<<"a", "u", "t", "h", "o", "r">>, <<"zuo", "zhe">>}
          THEN [nv EXCEPT !.Author = value]
        ELSE IF key \in {<<"d", "e", "s", "c", "r", "i", "p", "t", "i", "o", "n">>,
                         <<"jian", "jie4">>, <<"miao", "shu4">>}
          THEN [nv EXCEPT !.Description = value]
        ELSE IF key \in {<<"c", "o", "v", "e", "r">>, <<"feng", "mian">>}
          THEN [nv EXCEPT !.Cover = value]
        ELSE nv

RECURSIVE MetaLoop(_, _, _, _)
\* the loop of parseNovelMeta over ls[k..]
MetaLoop(nv, ls, k, inMeta) ==
    IF k > Len(ls) THEN nv
    ELSE IF IsMetaRule(ls[k])
      THEN IF ~inMeta THEN MetaLoop(nv, ls, k + 1, TRUE) ELSE nv
    ELSE IF inMeta THEN MetaLoop(parseMetaLine(nv, ls[k]), ls, k + 1, inMeta)
    ELSE MetaLoop(nv, ls, k + 1, inMeta)

parseNovelMeta(nv, ls) == MetaLoop(nv, ls, 1, FALSE)

\* the ID and the title parseChapterFile reads from the file name
\* ^(\d+)[-_.]?(.*)$
FileNameParts(fileName) ==
    LET n == SpanEnd(fileName, 1, Digits)
        r == IF n <= Len(fileName) /\ fileName[n] \in {"-", "_", "."}
               THEN n + 1 ELSE n
        rest == SubSeq(fileName, r, Len(fileName))
    IN  IF n = 1 THEN [id |-> 0, title |-> fileName]
        ELSE [id |-> Atoi(SubSeq(fileName, 1, n - 1)),
              title |-> IF rest # <<>> THEN rest ELSE fileName]

\* the line starts a title entry of a chapter's front matter
IsChapterTitleEntry(line) ==
    \/ ExactAt(ToLower(line), 1, <<"t", "i", "t", "l", "e", ":">>)
    \/ ExactAt(ToLower(line), 1, <<"biao", "ti", ":">>)

RECURSIVE ChapterFileLoop(_, _, _, _, _)
\* the loop of parseChapterFile over ls[k..] (k = i + 1)
ChapterFileLoop(ls, k, inMeta, title, contentLines) ==
    IF k > Len(ls) THEN [title |-> title, contentLines |-> contentLines]
    ELSE IF IsMetaRule(ls[k]) /\ k = 1
      THEN ChapterFileLoop(ls, k + 1, TRUE, title, contentLines)
    ELSE IF IsMetaRule(ls[k]) /\ inMeta
      THEN ChapterFileLoop(ls, k + 1, FALSE, title, contentLines)
    ELSE IF inMeta
      THEN IF IsChapterTitleEntry(ls[k])
             THEN ChapterFileLoop(ls, k + 1, inMeta,
                      TrimSpace(SubSeq(ls[k], IndexOf(ls[k], ":", 1) + 1, Len(ls[k]))),
                      contentLines)
             ELSE ChapterFileLoop(ls, k + 1, inMeta, title, contentLines)
    ELSE IF k = 1 /\ MdChapterMatch(ls[k]) # Nil
      THEN ChapterFileLoop(ls, k + 1, inMeta, TrimSpace(MdChapterMatch(ls[k])[1]),
                           contentLines)
    ELSE ChapterFileLoop(ls, k + 1, inMeta, title, Append(contentLines, ls[k]))

\* parseChapterFile on the file <name>.md with the lines ls
parseChapterFile(name, ls) ==
    LET parts == FileNameParts(name)
        read == ChapterFileLoop(ls, 1, FALSE, parts.title, <<>>)
    IN  [ID |-> parts.id, Title |-> read.title,
         Content |-> JoinLines(read.contentLines), Path |-> TrimSuffixMd(name)]

\* sort.Slice left the chapters in an order its less function accepts
SortedByPath(chapters) ==
    \A k \in 1..(Len(chapters) - 1) : ~Less(chapters[k + 1].Path, chapters[k].Path)

\* the ID parseNovelFromDir gives the chapter at index k - 1
RenumberedID(k) == k

\* the locals of parseNovelFromFile before its loop
NewFileLocals ==
    [currentChapter |-> Nil, contentLines |-> <<>>, inMeta |-> FALSE,
     chapterID |-> 0]

\* parseNovelFromFile appends the open chapter, if any, with its content
SaveFileChapter(o, nv) ==
    IF o.currentChapter # Nil
      THEN [nv EXCEPT !.Chapters =
               Append(@, [o.currentChapter[1] EXCEPT
                             !.Content = JoinLines(o.contentLines)])]
      ELSE nv

\* the body of the loop of parseNovelFromFile after the test of the
\* delimiter: <<locals, novel>>
ParseFileBody(o, nv, line) ==
    IF o.inMeta THEN <<o, parseMetaLine(nv, line)>>
    ELSE IF MdChapterMatch(line) # Nil
      THEN << [o EXCEPT !.chapterID = @ + 1,
                        !.currentChapter =
                            <<NewChapter(o.chapterID + 1,
                                         TrimSpace(MdChapterMatch(line)[1]))>>,
                        !.contentLines = <<>>],
              SaveFileChapter(o, nv) >>
    ELSE IF o.currentChapter # Nil
      THEN <<[o EXCEPT !.contentLines = Append(@, line)], nv>>
    ELSE <<o, nv>>

\* ParseFileLine with a delimiter that opens the metadata again wherever it
\* stands
ParseFileLine_Reopen(o, nv, line, idx) ==
    IF IsMetaRule(line) THEN <<[o EXCEPT !.inMeta = ~o.inMeta], nv>>
    ELSE ParseFileBody(o, nv, line)

\* one turn of the loop of parseNovelFromFile on the line at index idx
ParseFileLine(o, nv, line, idx) ==
    IF IsMetaRule(line) /\ idx = 0 THEN <<[o EXCEPT !.inMeta = TRUE], nv>>
    ELSE IF IsMetaRule(line) /\ o.inMeta THEN <<[o EXCEPT !.inMeta = FALSE], nv>>
    ELSE ParseFileBody(o, nv, line)


\* ------------------------------------------------------------------------
\* Inputs
\* ------------------------------------------------------------------------

\* lines of a manuscript
Blank == <<>>
Sep == <<"=", "=", "=">>
Plain == <<"nei", "rong">>
AuthorLine == <<"zuo", "zhe", "fcolon", "zhang1", "n3">>
ChapterOne == <<"di", "n1", "zhang", " ", "kai", "shi3">>
ChapterTwo == <<"di", "n2", "zhang", " ", "fa", "zhan">>
ChapterBare == <<"di", "n1", "zhang">>
VolumeLine == <<"di", "n1", "juan", " ", "cheng", "chang">>
SectionLine == <<"di", "n1", "jie">>
PrologueLine == <<"xu", "yan">>
EpilogueLine == <<"hou", "ji">>
SummaryLine == <<"jian", "jie4", "fcolon", "nei", "rong">>
Indented == <<" ", "nei", "rong", "2", " ">>

\* the lines long inputs are built of
CoreLines == {Blank, Sep, Plain, ChapterOne, VolumeLine}

\* every kind of line
AllLines ==
    CoreLines \cup {AuthorLine, ChapterTwo, ChapterBare, SectionLine,
                    PrologueLine, EpilogueLine, SummaryLine, Indented}

\* the longest input made of CoreLines
MaxLen == 5

\* the longest run of AllLines in an input, after an optional separator
MaxLenAll == 2

\* the longest file of a directory of two files
MaxDirLen == 2

SeqsUpTo(S, n) == UNION {[1..k -> S] : k \in 1..n}

\* the six lines of end-to-end scenario A
ScenarioA ==
    << AuthorLine,
       <<"=", "=", "=", "=", "=", "=", "=", "=">>,
       ChapterOne,
       <<"nei", "rong", ".", ".", ".">>,
       ChapterTwo,
       <<"nei", "rong", "2">> >>

\* the files read: strings.Split gives at least one line
\* header lines: one for each field of the header, in the spellings of the
\* keys and in both colons
HeaderLines ==
    { <<"T", "i", "t", "l", "e", ":", " ", "shu">>,
      <<"biao", "ti", ":", "shu">>,
      <<"A", "u", "t", "h", "o", "r", ":", " ", "zhang1">>,
      AuthorLine,
      SummaryLine,
      <<"miao", "shu4", "fcolon", "nei">>,
      <<"fen", "lei", ":", "gu">>,
      <<"biao", "qian1", ":", "a", ",", "b">>,
      <<"feng", "mian", ":", "c", ".", "p">> }

\* files that open with a header line and a separator
HeaderInputs ==
    {<<h, Sep>> \o t : h \in HeaderLines, t \in {<<Plain>>, <<ChapterOne, Plain>>}}

Inputs ==
    SeqsUpTo(CoreLines, MaxLen)
    \cup {h \o t : h \in {<<>>, <<Sep>>}, t \in SeqsUpTo(AllLines, MaxLenAll)}
    \cup {ScenarioA}
    \cup HeaderInputs

DirInputs == SeqsUpTo({Plain, ChapterOne}, MaxDirLen)

\* the .txt files of a directory, in the order sortTxtFiles leaves them
Directories ==
    {<<f>> : f \in Inputs} \cup {<<f, g>> : f \in DirInputs, g \in DirInputs}

\* the lines of the alphabet-generated inputs of the pure functions
FmtAlphabet ==
    {"di", "n1", "1", "zhang", "juan", "jie", ".", "dun", " ", ":", "fcolon",
     "hou", "ji", "xu", "nei"}

\* the longest generated line
MaxFmtLen == 3

FmtLines == SeqsUpTo(FmtAlphabet, MaxFmtLen) \cup AllLines

\* the longest tail of a long input
MaxTail == 2

\* x repeated n times
Repeat(x, n) == [k \in 1..n |-> x]

\* Inputs that reach the lookahead bound of MetadataState.HandleLine: a first
\* line, lines that fill the window up to its last index or just beyond it,
\* and a tail.
LongInputs ==
    {<<h>> \o Repeat(f, n) \o t :
        h \in {Plain, AuthorLine}, f \in {Plain, Blank},
        n \in {MetadataLookahead - 1, MetadataLookahead},
        t \in SeqsUpTo(AllLines, MaxTail)}

\* lines of Markdown files
MetaRule == <<"-", "-", "-">>
MdTitleLine == <<"T", "i", "t", "l", "e", ":", " ", "kai", "shi3">>
MdAuthorLine == <<"zuo", "zhe", ":", "zhang1", "n3">>
Heading == <<"#", " ", "di", "n1", "zhang", " ", "fa", "zhan">>

\* the Markdown files: body only, headed, with front matter, with front
\* matter left open
MdContents ==
    { <<Plain>>,
      <<Heading, Plain>>,
      <<MetaRule, MdTitleLine, MdAuthorLine, MetaRule, Plain, MetaRule>>,
      <<MetaRule, MdTitleLine>> }

\* the name of the metadata file, without .md
MetaName == <<"m", "e", "t", "a">>

\* names of .md files, without .md
MdNames ==
    { <<"1">>, <<"2">>, <<"1", "0">>, <<"1", "-", "a">>, <<"a">>,
      <<"2", ".", "m", "d">>, MetaName }

\* the most .md files in a directory
MaxMdFiles == 3

\* the names filepath.Glob returns: sorted as paths
GlobNames ==
    {ns \in SeqsUpTo(MdNames, MaxMdFiles) :
        \A k \in 1..(Len(ns) - 1) : Less(ns[k] \o MdSuffix, ns[k + 1] \o MdSuffix)}

\* the directories of .md files
MdDirectories ==
    UNION { { [k \in 1..Len(ns) |-> [name |-> ns[k], content |-> cs[k]]] :
                cs \in [1..Len(ns) -> MdContents] } : ns \in GlobNames }

\* filepath.Base of the directory
DirTitle == <<"d">>

\* the characters of the generated numerals
NumeralAlphabet == {"n1", "n2", "n3", "n10", "n100", "n1000", "n10000"}

\* the longest generated numeral
MaxNumeralLen == 4

\* the numerals read: generated ones and those of the examples
NumeralInputs ==
    SeqsUpTo(NumeralAlphabet, MaxNumeralLen)
    \cup { <<"n1", "n100", "n2", "n10", "n3">>, <<"n9">>, <<"n3", "n1000">> }

\* the characters of the generated titles
TitleAlphabet == {"1", "2", "0", "di", "zhang", "n2", "n10"}

\* the longest generated title
MaxTitleLen == 3

TitleInputs == SeqsUpTo(TitleAlphabet, MaxTitleLen) \cup {<<>>}

\* the longest generated text, in lines
MaxCleanLen == 5

\* the texts CleanContent is called on
CleanInputs == SeqsUpTo({Blank, <<" ">>, Plain, Indented}, MaxCleanLen)

\* the characters of the generated tag values
TagAlphabet == {"a", "b", ",", " ", "fsemi"}

\* the longest generated tag value
MaxTagLen == 5

\* the values of the tags key
TagInputs == SeqsUpTo(TagAlphabet, MaxTagLen)

\* the longest single Markdown file, in lines
MaxMdLen == 5

\* the single Markdown files
MdFileInputs == SeqsUpTo({MetaRule, MdTitleLine, Heading, Plain}, MaxMdLen)

\* the calls that run at the same time on one StatefulTxtParser
Calls == {1, 2}

\* the longest input of a concurrent call
MaxParLen == 3

\* the inputs of the concurrent calls
ParInputs == SeqsUpTo({Sep, Plain, ChapterOne, VolumeLine}, MaxParLen)

\* the title Parse derives from the path before it parses
FileTitle == <<"f">>

\* ------------------------------------------------------------------------
\* State
\* ------------------------------------------------------------------------

VARIABLES
    mode,       \* "state": TxtFileStrategy.Parse; "dir": TxtDirectoryStrategy.Parse;
                \* "md": Parser.parseNovelFromDir; "fmt": one call of
                \* IdentifyChapterType; else the name of the function called
    pc,         \* where the run is: "meta", "loop", "return", "call", "done"
    files,      \* dir: the contents of the sorted .txt files; md: the .md
                \* files, name and content
    fileIdx,    \* dir, md: the file the loop works on
    lines,      \* the lines of the file being parsed
    i,          \* the index (from 0) of the next line of the loop
    novel,      \* the Novel the caller gets
    ctx,        \* state: the ParseContext
    old,        \* dir: the locals of parseContentOld
    tempNovel,  \* dir: parseTextFile's temporary Novel
    chapterID,  \* dir: the counter Parse shares with parseTextFile
    fmtLine,    \* fmt: the argument of the call
    fmtOut      \* fmt: Nil, or the result of the call

vars == <<mode, pc, files, fileIdx, lines, i, novel, ctx, old, tempNovel,
          chapterID, fmtLine, fmtOut>>

\* the start of a run of mode m on the directory (or the one file) fs
Start(m, fs) ==
    /\ mode = m
    /\ pc = "loop"
    /\ files = fs
    /\ fileIdx = 1
    /\ lines = fs[1]
    /\ i = 0
    /\ novel = NewNovel(FileTitle)
    /\ ctx = NewParseContext
    /\ old = NewOldLocals
    /\ tempNovel = NewNovel(<<>>)
    /\ chapterID = 0
    /\ fmtLine = <<>>
    /\ fmtOut = Nil

\* the start of parseNovelFromDir on the directory dir
StartMd(dir) ==
    /\ mode = "md"
    /\ pc = "meta"
    /\ files = dir
    /\ fileIdx = 1
    /\ lines = <<>>
    /\ i = 0
    /\ novel = NewMdNovel
    /\ ctx = NewParseContext
    /\ old = NewOldLocals
    /\ tempNovel = NewNovel(<<>>)
    /\ chapterID = 0
    /\ fmtLine = <<>>
    /\ fmtOut = Nil

Init ==
    \/ \E input \in Inputs : Start("state", <<input>>)
    \/ \E dir \in Directories : Start("dir", dir)
    \/ \E dir \in MdDirectories : StartMd(dir)

InitLong ==
    \E input \in LongInputs : Start("state", <<input>>) \/ Start("dir", <<input>>)

InitFmt ==
    /\ mode = "fmt"
    /\ pc = "call"
    /\ files = <<>>
    /\ fileIdx = 1
    /\ lines = <<>>
    /\ i = 0
    /\ novel = NewNovel(<<>>)
    /\ ctx = NewParseContext
    /\ old = NewOldLocals
    /\ tempNovel = NewNovel(<<>>)
    /\ chapterID = 0
    /\ fmtLine \in FmtLines
    /\ fmtOut = Nil

\* the start of one call of the function m names on the argument arg
StartCall(m, arg) ==
    /\ mode = m
    /\ pc = "call"
    /\ files = <<>>
    /\ fileIdx = 1
    /\ lines = <<>>
    /\ i = 0
    /\ novel = NewNovel(<<>>)
    /\ ctx = NewParseContext
    /\ old = NewOldLocals
    /\ tempNovel = NewNovel(<<>>)
    /\ chapterID = 0
    /\ fmtLine = arg
    /\ fmtOut = Nil

InitPure ==
    \/ \E arg \in NumeralInputs : StartCall("parseChineseNumber", arg)
    \/ \E arg \in TitleInputs : StartCall("ExtractNumber", arg)
    \/ \E arg \in CleanInputs : StartCall("CleanContent", arg)
    \/ \E arg \in TagInputs : StartCall("setNovelMetadata", arg)

\* parseNovelFromFile before its loop: the file is read and split, the title
\* is the file name
InitMdFile ==
    /\ mode = "mdfile"
    /\ pc = "loop"
    /\ files = <<>>
    /\ fileIdx = 1
    /\ lines \in MdFileInputs
    /\ i = 0
    /\ novel = [NewMdNovel EXCEPT !.Title = FileTitle]
    /\ ctx = NewParseContext
    /\ old = NewFileLocals
    /\ tempNovel = NewNovel(<<>>)
    /\ chapterID = 0
    /\ fmtLine = <<>>
    /\ fmtOut = Nil

\* two goroutines have entered ParseWithState on the same parser, each with
\* its own Novel and lines; files holds the observers of the shared notifier
InitPar ==
    /\ mode = "par"
    /\ pc = [call \in Calls |-> "loop"]
    /\ files = <<>>
    /\ fileIdx = 1
    /\ lines \in [Calls -> ParInputs]
    /\ i = [call \in Calls |-> 0]
    /\ novel = [call \in Calls |-> NewNovel(FileTitle)]
    /\ ctx = [call \in Calls |-> NewParseContext]
    /\ old = NewOldLocals
    /\ tempNovel = NewNovel(<<>>)
    /\ chapterID = 0
    /\ fmtLine = <<>>
    /\ fmtOut = Nil

\* ------------------------------------------------------------------------
\* Actions
\* ------------------------------------------------------------------------

\* One iteration of the loop of ParseWithState: context.HandleLine(line, i)
\* calls HandleLine of the state the context is in, which gives r.
LoopStep(st, r) ==
    /\ mode = "state" /\ pc = "loop" /\ i < Len(lines)
    /\ ctx.state = st
    /\ ctx' = r[1]
    /\ novel' = r[2]
    /\ i' = i + 1
    /\ UNCHANGED <<mode, pc, files, fileIdx, lines, old, tempNovel, chapterID,
                   fmtLine, fmtOut>>

HandleInMetadata ==
    /\ i < Len(lines)
    /\ LoopStep("Metadata", MetadataStateHandleLine(ctx, novel, lines[i + 1], i))

HandleInContent ==
    /\ i < Len(lines)
    /\ LoopStep("Content", ContentStateHandleLine(ctx, novel, lines[i + 1], i))

HandleInChapter ==
    /\ i < Len(lines)
    /\ LoopStep("Chapter", ChapterStateHandleLine(ctx, novel, lines[i + 1], i))

HandleInVolume ==
    /\ i < Len(lines)
    /\ LoopStep("Volume", VolumeStateHandleLine(ctx, novel, lines[i + 1], i))

HandleInPrologue ==
    /\ i < Len(lines)
    /\ LoopStep("Prologue", PrologueStateHandleLine(ctx, novel, lines[i + 1], i))

HandleInEpilogue ==
    /\ i < Len(lines)
    /\ LoopStep("Epilogue", EpilogueStateHandleLine(ctx, novel, lines[i + 1], i))

\* the end of ParseWithState: the last chapter is saved
ParseWithStateEnd ==
    /\ mode = "state" /\ pc = "loop" /\ i = Len(lines)
    /\ LET r == SaveCurrentChapter(ctx, novel)
       IN  ctx' = r[1] /\ novel' = r[2]
    /\ pc' = "done"
    /\ UNCHANGED <<mode, files, fileIdx, lines, i, old, tempNovel, chapterID,
                   fmtLine, fmtOut>>

\* one iteration of the loop of parseContentOld
ParseContentOldStep ==
    /\ mode = "dir" /\ pc = "loop" /\ i < Len(lines)
    /\ LET r == ParseContentOldLine(old, tempNovel, lines[i + 1], i)
       IN  old' = r[1] /\ tempNovel' = r[2]
    /\ i' = i + 1
    /\ UNCHANGED <<mode, pc, files, fileIdx, lines, novel, ctx, chapterID,
                   fmtLine, fmtOut>>

\* the end of parseContentOld: the last chapter, the fallback chapter and
\* convertToStandardChapters
ParseContentOldEnd ==
    /\ mode = "dir" /\ pc = "loop" /\ i = Len(lines)
    /\ LET saved == OldSaveChapter(old, Len(lines) - 1)
           all == IF Len(saved.txtChapters) = 0
                    THEN <<FallbackChapter(lines, saved.metadataEndLine)>>
                    ELSE saved.txtChapters
       IN  /\ old' = [saved EXCEPT !.txtChapters = all]
           /\ tempNovel' = convertToStandardChapters(tempNovel, all)
    /\ pc' = "return"
    /\ UNCHANGED <<mode, files, fileIdx, lines, i, novel, ctx, chapterID,
                   fmtLine, fmtOut>>

\* the ID parseTextFile gives the k-th chapter of the file
ReassignedID(counter, k) == counter + k

\* the end of parseTextFile and the next turn of the loop of Parse: the
\* chapters get their final IDs and join the Novel; the next file is read
ParseTextFileReturn ==
    /\ mode = "dir" /\ pc = "return"
    /\ LET n == Len(tempNovel.Chapters)
           chapters == [k \in 1..n |->
                          [tempNovel.Chapters[k] EXCEPT
                              !.ID = ReassignedID(chapterID, k)]]
       IN  /\ chapterID' = chapterID + n
           /\ novel' = [novel EXCEPT !.Chapters = @ \o chapters]
    /\ IF fileIdx < Len(files)
         THEN /\ fileIdx' = fileIdx + 1
              /\ lines' = files[fileIdx + 1]
              /\ i' = 0
              /\ old' = NewOldLocals
              /\ tempNovel' = NewNovel(<<>>)
              /\ pc' = "loop"
         ELSE /\ pc' = "done"
              /\ tempNovel' =
                     [tempNovel EXCEPT !.Chapters =
                         [k \in 1..Len(@) |->
                             [@[k] EXCEPT !.ID = ReassignedID(chapterID, k)]]]
              /\ UNCHANGED <<fileIdx, lines, i, old>>
    /\ UNCHANGED <<mode, files, ctx, fmtLine, fmtOut>>

\* one call of TxtFormat.IdentifyChapterType
Identify ==
    /\ mode = "fmt" /\ pc = "call"
    /\ fmtOut' = <<IdentifyChapterType(fmtLine)>>
    /\ pc' = "done"
    /\ UNCHANGED <<mode, files, fileIdx, lines, i, novel, ctx, old, tempNovel,
                   chapterID, fmtLine>>

\* the call returns out
Return(m, out) ==
    /\ mode = m /\ pc = "call"
    /\ fmtOut' = <<out>>
    /\ pc' = "done"
    /\ UNCHANGED <<mode, files, fileIdx, lines, i, novel, ctx, old, tempNovel,
                   chapterID, fmtLine>>

\* one call of parseChineseNumber
CallParseChineseNumber ==
    /\ mode = "parseChineseNumber"
    /\ Return("parseChineseNumber", parseChineseNumber(fmtLine))

\* one call of TxtFormat.ExtractNumber
CallExtractNumber ==
    /\ mode = "ExtractNumber"
    /\ Return("ExtractNumber", ExtractNumber(fmtLine))

\* one call of TxtFormat.CleanContent
CallCleanContent ==
    /\ mode = "CleanContent"
    /\ Return("CleanContent", CleanContent(fmtLine))

\* a call of TxtFormat.CleanContent on the result of the call before
CallCleanContentAgain ==
    /\ mode = "CleanContent" /\ pc = "done"
    /\ fmtOut' = Append(fmtOut, CleanContent(fmtOut[1]))
    /\ pc' = "again"
    /\ UNCHANGED <<mode, files, fileIdx, lines, i, novel, ctx, old, tempNovel,
                   chapterID, fmtLine>>

\* one call of setNovelMetadata with the key tags
CallSetNovelMetadata ==
    /\ mode = "setNovelMetadata" /\ pc = "call"
    /\ novel' = setNovelMetadata(novel, "tags", fmtLine)
    /\ fmtOut' = <<novel'.Tags>>
    /\ pc' = "done"
    /\ UNCHANGED <<mode, files, fileIdx, lines, i, ctx, old, tempNovel,
                   chapterID, fmtLine>>

\* the start of parseNovelFromDir: meta.md is read and leaves the list, the
\* title defaults to the directory's name
ParseNovelFromDirMeta ==
    /\ mode = "md" /\ pc = "meta"
    /\ LET metas == SelectSeq(files, LAMBDA f : f.name = MetaName)
           read == IF metas # <<>> THEN parseNovelMeta(novel, metas[1].content)
                   ELSE novel
       IN  /\ files' = SelectSeq(files, LAMBDA f : f.name # MetaName)
           /\ novel' = IF read.Title = <<>> THEN [read EXCEPT !.Title = DirTitle]
                       ELSE read
    /\ pc' = "loop"
    /\ UNCHANGED <<mode, fileIdx, lines, i, ctx, old, tempNovel, chapterID,
                   fmtLine, fmtOut>>

\* one turn of the loop of parseNovelFromDir over the files
ParseChapterFileStep ==
    /\ mode = "md" /\ pc = "loop" /\ fileIdx <= Len(files)
    /\ novel' = [novel EXCEPT !.Chapters =
                    Append(@, parseChapterFile(files[fileIdx].name,
                                               files[fileIdx].content))]
    /\ fileIdx' = fileIdx + 1
    /\ UNCHANGED <<mode, pc, files, lines, i, ctx, old, tempNovel, chapterID,
                   fmtLine, fmtOut>>

\* the end of parseNovelFromDir: the chapters are sorted by Path (sort.Slice
\* is free to order equal paths either way) and numbered again
SortAndRenumber ==
    /\ mode = "md" /\ pc = "loop" /\ fileIdx > Len(files)
    /\ \E perm \in Permutations(1..Len(novel.Chapters)) :
          LET sorted == [k \in 1..Len(novel.Chapters) |-> novel.Chapters[perm[k]]]
          IN  /\ SortedByPath(sorted)
              /\ novel' = [novel EXCEPT !.Chapters =
                              [k \in 1..Len(sorted) |->
                                  [sorted[k] EXCEPT !.ID = RenumberedID(k)]]]
    /\ pc' = "done"
    /\ UNCHANGED <<mode, files, fileIdx, lines, i, ctx, old, tempNovel,
                   chapterID, fmtLine, fmtOut>>

\* one turn of the loop of parseNovelFromFile
ParseNovelFromFileStep ==
    /\ mode = "mdfile" /\ pc = "loop" /\ i < Len(lines)
    /\ LET r == ParseFileLine(old, novel, lines[i + 1], i)
       IN  old' = r[1] /\ novel' = r[2]
    /\ i' = i + 1
    /\ UNCHANGED <<mode, pc, files, fileIdx, lines, ctx, tempNovel, chapterID,
                   fmtLine, fmtOut>>

\* the end of parseNovelFromFile: the last chapter is saved
ParseNovelFromFileEnd ==
    /\ mode = "mdfile" /\ pc = "loop" /\ i = Len(lines)
    /\ novel' = SaveFileChapter(old, novel)
    /\ pc' = "done"
    /\ UNCHANGED <<mode, files, fileIdx, lines, i, ctx, old, tempNovel,
                   chapterID, fmtLine, fmtOut>>

\* one turn of the loop of ParseWithState in one of the concurrent calls
ParHandleLine ==
    /\ mode = "par"
    /\ \E call \in Calls :
          /\ pc[call] = "loop" /\ i[call] < Len(lines[call])
          /\ LET r == HandleLine(ctx[ContextOf(call)], novel[call],
                                 lines[call][i[call] + 1], i[call])
             IN  /\ ctx' = [ctx EXCEPT ![ContextOf(call)] = r[1]]
                 /\ novel' = [novel EXCEPT ![call] = r[2]]
          /\ i' = [i EXCEPT ![call] = @ + 1]
    /\ UNCHANGED <<mode, pc, files, fileIdx, lines, old, tempNovel, chapterID,
                   fmtLine, fmtOut>>

\* the end of one of the concurrent calls: SaveCurrentChapter and return
ParEnd ==
    /\ mode = "par"
    /\ \E call \in Calls :
          /\ pc[call] = "loop" /\ i[call] = Len(lines[call])
          /\ LET r == SaveCurrentChapter(ctx[ContextOf(call)], novel[call])
             IN  /\ ctx' = [ctx EXCEPT ![ContextOf(call)] = r[1]]
                 /\ novel' = [novel EXCEPT ![call] = r[2]]
          /\ pc' = [pc EXCEPT ![call] = "done"]
    /\ UNCHANGED <<mode, files, fileIdx, lines, i, old, tempNovel, chapterID,
                   fmtLine, fmtOut>>

\* the text parsers
NextTxt ==
    \/ HandleInMetadata
    \/ HandleInContent
    \/ HandleInChapter
    \/ HandleInVolume
    \/ HandleInPrologue
    \/ HandleInEpilogue
    \/ ParseWithStateEnd
    \/ ParseContentOldStep
    \/ ParseContentOldEnd
    \/ ParseTextFileReturn

\* the Markdown directory parser
NextMd ==
    \/ ParseNovelFromDirMeta
    \/ ParseChapterFileStep
    \/ SortAndRenumber

Next == NextTxt \/ NextMd

\* the calls of the pure functions
NextFmt == Identify

\* the calls of the other pure functions
NextPure ==
    \/ CallParseChineseNumber
    \/ CallExtractNumber
    \/ CallCleanContent
    \/ CallCleanContentAgain
    \/ CallSetNovelMetadata

\* files and directories of a few lines
Spec == Init /\ [][Next]_vars

\* files longer than the metadata lookahead
SpecLong == InitLong /\ [][NextTxt]_vars

\* single calls of the functions of TxtFormat
SpecFmt == InitFmt /\ [][NextFmt]_vars

\* single calls of the numeral, normalizing and tag functions
SpecPure == InitPure /\ [][NextPure]_vars

NextMdFile ==
    \/ ParseNovelFromFileStep
    \/ ParseNovelFromFileEnd

\* parseNovelFromFile on one Markdown file
SpecMdFile == InitMdFile /\ [][NextMdFile]_vars

NextPar ==
    \/ ParHandleLine
    \/ ParEnd

\* two concurrent calls of ParseWithState, interleaved line by line
SpecPar == InitPar /\ [][NextPar]_vars

\* ParseWithState as it runs: the for loop takes its next turn, the return
\* follows the loop
InitLive ==
    \E input \in SeqsUpTo(AllLines, MaxLenAll) \cup HeaderInputs \cup {ScenarioA} :
        Start("state", <<input>>)

SpecLive == InitLive /\ [][NextTxt]_vars /\ WF_vars(NextTxt)


\* ------------------------------------------------------------------------
\* Properties
\* ------------------------------------------------------------------------

\* the type IdentifyChapterType gives line k (from 1) of the file
LineType(k) == IdentifyChapterType(lines[k]).type

\* a line that is not blank, no separator and no metadata line
IsBodyLine(line) ==
    /\ ~IsEmptyLine(line)
    /\ ~IsSeparator(TrimSpace(line))
    /\ ExtractMetadata(line).key = ""

\* C1: after any complete parse the k-th chapter of the Novel has ID k,
\* whatever the volume, chapter and section counters are: in the Novel of
\* ParseWithState and of TxtDirectoryStrategy.Parse at every moment, in the
\* Novel parseContentOld hands back to parseTextFile, and in the Novel of
\* parseNovelFromDir when it returns.
C1_ChapterIdsSequential ==
    /\ (mode = "md" => pc = "done") =>
           \A k \in 1..Len(novel.Chapters) : novel.Chapters[k].ID = k
    /\ (mode = "dir" /\ pc = "return") =>
           \A k \in 1..Len(tempNovel.Chapters) : tempNovel.Chapters[k].ID = k

\* a finished state-machine parse with two chapters whose IDs run ahead of
\* the chapter counter
C1_Witness ==
    /\ mode = "state" /\ pc = "done"
    /\ Len(novel.Chapters) >= 2
    /\ ctx.chapterID < Len(novel.Chapters)

\* C2: an input with a non-blank body line and no marker line gives a Novel
\* of exactly one chapter when TxtFileStrategy.Parse (ParseWithState) has
\* parsed it.
C2_UnmarkedInputOneChapter ==
    ( /\ mode = "state" /\ pc = "done"
      /\ \A k \in 1..Len(lines) : LineType(k) = ChapterTypeUnknown
      /\ \E k \in 1..Len(lines) : IsBodyLine(lines[k]) )
    => Len(novel.Chapters) = 1

\* C3: an empty input, or one of blank lines only, gives a Novel of exactly
\* one (fallback) chapter, with the state machine and with parseContentOld
\* followed by convertToStandardChapters.
C3_BlankInputOneChapter ==
    ( /\ mode \in {"state", "dir"} /\ pc = "done" /\ Len(files) = 1
      /\ \A k \in 1..Len(lines) : IsEmptyLine(lines[k]) )
    => Len(novel.Chapters) = 1

\* the counters v, c, s become v2, c2, s2 as C4 says for a line of type t
C4_Counted(t, v, c, s, v2, c2, s2) ==
    /\ t = ChapterTypeVolume => v2 = v + 1 /\ c2 = 0 /\ s2 = 0
    /\ t = ChapterTypeChapter => c2 = c + 1 /\ s2 = 0
    /\ t = ChapterTypeSection => s2 = s + 1

\* a step of ContentState.HandleLine (also behind the four states that
\* delegate to it) counts as C4 says
C4_StateStep ==
    (mode = "state" /\ pc = "loop" /\ i' = i + 1 /\ ctx.state # "Metadata")
    => C4_Counted(LineType(i + 1), ctx.volumeID, ctx.chapterID, ctx.sectionID,
                  ctx'.volumeID, ctx'.chapterID, ctx'.sectionID)

\* a step of the loop of parseContentOld counts as C4 says
C4_OldStep ==
    (mode = "dir" /\ pc = "loop" /\ pc' = "loop" /\ i' = i + 1)
    => C4_Counted(LineType(i + 1), old.currentVolumeID, old.currentChapterID,
                  old.currentSectionID, old'.currentVolumeID,
                  old'.currentChapterID, old'.currentSectionID)

\* in the records of parseContentOld the first Chapter record after a Volume
\* record has chapter index 1
C4_FirstChapterOfVolume ==
    \A k \in 1..Len(old.txtChapters) : \A j \in (k + 1)..Len(old.txtChapters) :
        ( /\ old.txtChapters[k].Type = ChapterTypeVolume
          /\ old.txtChapters[j].Type = ChapterTypeChapter
          /\ \A m \in (k + 1)..(j - 1) :
                 old.txtChapters[m].Type \notin {ChapterTypeVolume, ChapterTypeChapter}
          /\ old.txtChapters[j].Title # <<"zheng", "wen">> )
        => old.txtChapters[j].ChapterID = 1

\* C4: in ContentState.HandleLine and in parseContentOld a Volume line adds 1
\* to the volume index and sets the chapter and section index to 0, a Chapter
\* line adds 1 to the chapter index and sets the section index to 0, a
\* Section line adds 1 to the section index; so the first Chapter line after
\* a Volume line has chapter index 1.
C4_CounterRules ==
    [][C4_StateStep /\ C4_OldStep]_vars /\ []C4_FirstChapterOfVolume

\* the state machine has met two volumes with one chapter each: the chapter
\* index is 1 again after the second volume
C4_Witness ==
    /\ mode = "state"
    /\ ctx.chapterTypes = <<ChapterTypeVolume, ChapterTypeChapter,
                            ChapterTypeVolume, ChapterTypeChapter>>
    /\ ctx.volumeID = 2 /\ ctx.chapterID = 1

\* the pattern of type t matches the trimmed line s
Matches(t, s) ==
    CASE t = ChapterTypePrologue -> PrologueMarkerEnd(s) # 0
      [] t = ChapterTypeEpilogue -> EpilogueMarkerEnd(s) # 0
      [] t = ChapterTypeSummary -> SummaryMarkerEnd(s) # 0
      [] t = ChapterTypeVolume -> VolumeMarkerEnd(s) # 0
      [] t = ChapterTypeChapter -> ChapterMarkerEnd(s) # 0
      [] t = ChapterTypeSection -> SectionMarkerEnd(s) # 0

\* the precedence order of the classes
Precedence ==
    <<ChapterTypePrologue, ChapterTypeEpilogue, ChapterTypeSummary,
      ChapterTypeVolume, ChapterTypeChapter, ChapterTypeSection>>

\* C5: IdentifyChapterType returns the class of highest precedence among the
\* classes whose pattern matches the trimmed line (Prologue > Epilogue >
\* Summary > Volume > Chapter > Section), and Unknown only when no pattern
\* matches.
C5_HighestPrecedenceWins ==
    fmtOut # Nil =>
        LET s == TrimSpace(fmtLine)
            hits == {k \in 1..Len(Precedence) : Matches(Precedence[k], s)}
        IN  IF hits = {} THEN fmtOut[1].type = ChapterTypeUnknown
            ELSE /\ fmtOut[1].type \in {Precedence[k] : k \in hits}
                 /\ \A k \in hits : \A j \in 1..Len(Precedence) :
                        Precedence[j] = fmtOut[1].type => j <= k

\* a classified line that two patterns match
C5_Witness ==
    /\ fmtOut # Nil
    /\ Matches(ChapterTypeChapter, TrimSpace(fmtLine))
    /\ Matches(ChapterTypeSection, TrimSpace(fmtLine))
    /\ fmtOut[1].type = ChapterTypeChapter

\* the titles of the chapters of the Novel, in order
Titles == [k \in 1..Len(novel.Chapters) |-> novel.Chapters[k].Title]

\* the IDs of the chapters of the Novel, in order
IDs == [k \in 1..Len(novel.Chapters) |-> novel.Chapters[k].ID]

\* C6: parsing the six lines of scenario A gives the author zhang1 n3 and
\* exactly two chapters, ID 1 titled "di n1 zhang kai shi3" and ID 2 titled
\* "di n2 zhang fa zhan" (the marker lines themselves).
C6_ScenarioA ==
    (mode = "state" /\ pc = "done" /\ lines = ScenarioA) =>
        /\ novel.Author = <<"zhang1", "n3">>
        /\ IDs = <<1, 2>>
        /\ Titles = <<ChapterOne, ChapterTwo>>

\* C7: when the input has no separator line, no body text is lost: the first
\* line of the input is the first content line of the first (or fallback)
\* chapter.
C7_FirstLineKept ==
    ( /\ mode \in {"state", "dir"} /\ pc = "done"
      /\ \A k \in 1..Len(lines) : ~IsSeparator(TrimSpace(lines[k]))
      /\ IsBodyLine(lines[1])
      /\ LineType(1) = ChapterTypeUnknown )
    => /\ Len(novel.Chapters) >= 1
       /\ novel.Chapters[1].Content[1] = TrimSpace(lines[1])

\* C8: a separator line handled in state Metadata moves the parser to state
\* Content; handled in any other state it changes neither the context (the
\* accumulator, the open chapter, the counters, the state) nor the Novel.
C8_SeparatorStep ==
    ( /\ mode = "state" /\ pc = "loop" /\ i' = i + 1
      /\ IsSeparator(TrimSpace(lines[i + 1])) )
    => IF ctx.state = "Metadata"
         THEN ctx'.state = "Content" /\ novel' = novel
         ELSE ctx' = ctx /\ novel' = novel

C8_SeparatorRule == [][C8_SeparatorStep]_vars

\* a separator has been handled after the one that ended the header, while a
\* chapter was open and had content
C8_Witness ==
    /\ mode = "state" /\ i >= 2
    /\ IsSeparator(TrimSpace(lines[i]))
    /\ \E j \in 1..(i - 1) : IsSeparator(TrimSpace(lines[j]))
    /\ ctx.currentChapter # Nil
    /\ ctx.contentLines # <<>>

\* C9: no chapter of a Novel parsed from text has content that is empty
\* after normalization: a marker line followed by blank lines only gives no
\* chapter.
C9_NoEmptyChapter ==
    mode \in {"state", "dir"} =>
        \A k \in 1..Len(novel.Chapters) : ~IsBlankText(novel.Chapters[k].Content)

\* the group of the pattern of a chapter marker line is empty
BareChapterLine(line) ==
    LET s == TrimSpace(line)
    IN  ChapterMarkerEnd(s) # 0 /\ TrimSpace(Capture(s, ChapterMarkerEnd(s))) = <<>>

\* the title C10 gives a chapter of type t opened by the marker line with the
\* indices v and c and the fragment f agrees with title
C10_Titled(t, line, v, c, f, title) ==
    /\ t = ChapterTypeVolume =>
           title = <<"di">> \o Itoa(v) \o <<"juan", " ">> \o f
    /\ (t = ChapterTypeChapter /\ BareChapterLine(line)) =>
           title = <<"di">> \o Itoa(c) \o <<"zhang">>
    /\ t \in {ChapterTypePrologue, ChapterTypeEpilogue, ChapterTypeSummary} =>
           title = f

\* the records of parseContentOld that convertToStandardChapters keeps
KeptRecords ==
    SelectSeq(old.txtChapters, LAMBDA r : ~IsBlankText(r.Content))

\* C10: an emitted chapter's title is synthesized from its role, index and
\* fragment: "di k juan f" for a Volume, "di n zhang" for a Chapter whose
\* marker line has no title text, the fragment alone for Prologue, Epilogue
\* and Summary.  Here for the chapters of parseContentOld once converted and
\* for the chapter ContentState.HandleLine has just opened.
C10_TitlesSynthesized ==
    /\ (mode = "dir" /\ pc = "return" /\ LineType(1) # ChapterTypeUnknown) =>
           \A k \in 1..Len(tempNovel.Chapters) :
               LET r == KeptRecords[k]
               IN  C10_Titled(r.Type, lines[r.LineStart + 1], r.VolumeID,
                              r.ChapterID, IdentifyChapterType(lines[r.LineStart + 1]).title,
                              tempNovel.Chapters[k].Title)
    /\ ( /\ mode = "state" /\ pc = "loop" /\ i >= 1
         /\ ctx.state # "Metadata"
         /\ LineType(i) # ChapterTypeUnknown ) =>
           C10_Titled(LineType(i), lines[i], ctx.volumeID, ctx.chapterID,
                      IdentifyChapterType(lines[i]).title,
                      ctx.currentChapter[1].Title)

\* the value of the digit character c, 0 when c is none of n1..n9
DigitOf(c) == IF \E v \in 1..9 : ChineseNums[v] = c
                THEN CHOOSE v \in 1..9 : ChineseNums[v] = c ELSE 0

\* the character of the unit u
UnitOf(u) == IF u = 1000 THEN "n1000" ELSE IF u = 100 THEN "n100" ELSE "n10"

RECURSIVE SectionFrom(_, _, _)
\* the number s[k..] denotes when it continues a numeral below 10000 at the
\* unit u with digit-unit pairs down to some unit, -1 when it does not
SectionFrom(s, k, u) ==
    IF k > Len(s) THEN 0
    ELSE IF u = 1
      THEN IF k = Len(s) /\ DigitOf(s[k]) > 0 THEN DigitOf(s[k]) ELSE -1
    ELSE IF k + 1 <= Len(s) /\ DigitOf(s[k]) > 0 /\ s[k + 1] = UnitOf(u)
      THEN LET r == SectionFrom(s, k + 2, u \div 10)
           IN  IF r < 0 THEN -1 ELSE DigitOf(s[k]) * u + r
    ELSE -1

\* the number the numeral s below 10000 denotes by the standard reading:
\* digit-unit pairs from some unit downwards, or n10 with an optional digit;
\* -1 when s is no such numeral
SectionValue(s) ==
    IF s = <<>> THEN -1
    ELSE IF s[1] = "n10"
      THEN IF Len(s) = 1 THEN 10
           ELSE IF Len(s) = 2 /\ DigitOf(s[2]) > 0 THEN 10 + DigitOf(s[2])
           ELSE -1
    ELSE IF SectionFrom(s, 1, 1000) >= 0 THEN SectionFrom(s, 1, 1000)
    ELSE IF SectionFrom(s, 1, 100) >= 0 THEN SectionFrom(s, 1, 100)
    ELSE IF SectionFrom(s, 1, 10) >= 0 THEN SectionFrom(s, 1, 10)
    ELSE SectionFrom(s, 1, 1)

\* the number the numeral s denotes by the standard reading (a numeral
\* below 10000, then possibly n10000 and possibly the thousands and lower
\* units), -1 when s is no such numeral
StandardValue(s) ==
    LET w == IndexOf(s, "n10000", 1)
        hi == SectionValue(SubSeq(s, 1, w - 1))
        lo == SectionFrom(s, w + 1, 1000)
    IN  IF w = 0 THEN SectionValue(s)
        ELSE IF hi < 0 \/ lo < 0 THEN -1
        ELSE hi * 10000 + lo

\* C11: for every numeral built from n1..n9, n10, n100, n1000, n10000 that
\* follows the standard reading (n10 n10000 and n10 n2 n10000 among them),
\* parseChineseNumber returns the number the numeral denotes.
C11_StandardNumerals ==
    ( /\ mode = "parseChineseNumber" /\ fmtOut # Nil
      /\ StandardValue(fmtLine) >= 0 )
    => fmtOut[1] = StandardValue(fmtLine)

\* C12: when the title holds Arabic digits, ExtractNumber returns the value
\* of its first run of digits.
C12_FirstDigitRun ==
    ( /\ mode = "ExtractNumber" /\ fmtOut # Nil
      /\ FindRun(fmtLine, Digits) # <<>> )
    => fmtOut[1] = Atoi(FindRun(fmtLine, Digits))

\* C13: CleanContent is idempotent: called on its own result it returns
\* that result.
C13_CleanContentIdempotent ==
    (mode = "CleanContent" /\ pc = "again") => fmtOut[2] = fmtOut[1]

\* CleanContent has been called twice on a text that starts with two blank
\* lines and that the first call changed
C13_Witness ==
    /\ mode = "CleanContent" /\ pc = "again"
    /\ Len(fmtLine) >= 3
    /\ IsEmptyLine(fmtLine[1]) /\ IsEmptyLine(fmtLine[2])
    /\ fmtOut[1] # fmtLine
    /\ fmtOut[1] # EmptyText

\* the lines of the text that are not blank, trimmed
TrimmedBody(text) ==
    LET body == SelectSeq(text, LAMBDA l : ~IsEmptyLine(l))
    IN  [k \in 1..Len(body) |-> TrimSpace(body[k])]

\* C14: the result of CleanContent has no line with white space at either
\* end, no three blank lines in a row, no blank line first or last (it may
\* be the empty string), and its non-blank lines are those of the input,
\* trimmed, in the same order.
C14_CleanContentShape ==
    (mode = "CleanContent" /\ fmtOut # Nil) =>
        LET out == fmtOut[1]
        IN  /\ \A k \in 1..Len(out) : out[k] = TrimSpace(out[k])
            /\ \A k \in 1..(Len(out) - 2) :
                   ~(out[k] = <<>> /\ out[k + 1] = <<>> /\ out[k + 2] = <<>>)
            /\ out = EmptyText \/ (out[1] # <<>> /\ out[Len(out)] # <<>>)
            /\ TrimmedBody(out) = TrimmedBody(fmtLine)

\* CleanContent has been called on a text with three blank lines between an
\* indented line and another line
C14_Witness ==
    /\ mode = "CleanContent" /\ fmtOut # Nil
    /\ Len(fmtLine) = 5
    /\ fmtLine[1] = Indented
    /\ \A k \in 2..4 : IsEmptyLine(fmtLine[k])
    /\ ~IsEmptyLine(fmtLine[5])
    /\ Len(fmtOut[1]) = 4

\* the file name starts with a number
HasLeadingNumber(fileName) == SpanEnd(fileName, 1, Digits) > 1

\* C15: in directory mode the chapters stand in ascending order of the
\* leading number of their file names, equal numbers in lexical order of the
\* names (2 before 10).
C15_NumericFileOrder ==
    (mode = "md" /\ pc = "done") =>
        \A k \in 1..(Len(novel.Chapters) - 1) :
            LET a == novel.Chapters[k].Path
                b == novel.Chapters[k + 1].Path
            IN  (HasLeadingNumber(a) /\ HasLeadingNumber(b)) =>
                    \/ FileNameParts(a).id < FileNameParts(b).id
                    \/ /\ FileNameParts(a).id = FileNameParts(b).id
                       /\ ~Less(b, a)

\* C16: in directory mode every chapter file gives exactly one chapter, so
\* the Novel has as many chapters as chapter files were read.
C16_OneChapterPerFile ==
    (mode \in {"dir", "md"} /\ pc = "done") => Len(novel.Chapters) = Len(files)

\* the file had no marker: parseContentOld made its fallback chapter
IsFallback ==
    /\ mode = "dir" /\ pc = "return"
    /\ Len(old.txtChapters) = 1
    /\ old.txtChapters[1].Title = <<"zheng", "wen">>

\* the index (from 1) of the first line after the metadata header: past the
\* separator that ended it, or past the leading metadata lines when no
\* separator followed them
RECURSIVE HeaderEnd(_, _)
HeaderEnd(ls, k) ==
    IF k > Len(ls) THEN k
    ELSE IF IsSeparator(TrimSpace(ls[k])) THEN k + 1
    ELSE IF IsEmptyLine(ls[k]) \/ ExtractMetadata(TrimSpace(ls[k])).key # ""
      THEN HeaderEnd(ls, k + 1)
    ELSE k

\* C17: the fallback chapter is titled zheng wen and its content is the
\* normalization of exactly the lines after the metadata header: neither
\* the metadata lines nor the separator that ended the header are in it.
C17_FallbackContent ==
    IsFallback =>
        old.txtChapters[1].Content =
            CleanContent(SubSeq(lines, HeaderEnd(lines, 1), Len(lines)))

\* the keys of the header, lower case, by the field each sets
HeaderKeys ==
    [Title |-> {<<"t", "i", "t", "l", "e">>, <<"biao", "ti">>},
     Author |-> {<<"a", "u", "t", "h", "o", "r">>, <<"zuo", "zhe">>},
     Description |-> {<<"d", "e", "s", "c", "r", "i", "p", "t", "i", "o", "n">>,
                      <<"jian", "jie4">>, <<"miao", "shu4">>},
     Category |-> {<<"c", "a", "t", "e", "g", "o", "r", "y">>, <<"fen", "lei">>},
     Tags |-> {<<"t", "a", "g", "s">>, <<"biao", "qian1">>},
     Cover |-> {<<"c", "o", "v", "e", "r">>, <<"feng", "mian">>}]

\* the index of the first colon of the line, of either width; 0 when none
FirstColon(line) ==
    LET a == IndexOf(line, ":", 1)
        f == IndexOf(line, "fcolon", 1)
    IN  IF a = 0 THEN f ELSE IF f = 0 THEN a ELSE IF a < f THEN a ELSE f

\* the key of a header line, lower case, and its value
HeaderKey(line) == ToLower(TrimSpace(SubSeq(line, 1, FirstColon(line) - 1)))
HeaderValue(line) == TrimSpace(SubSeq(line, FirstColon(line) + 1, Len(line)))

\* C18: a header line key: value, the key any of the header's keys in any
\* letter case, sets the field of that key to the value during the text
\* parse.
C18_HeaderKeysSet ==
    ( /\ mode = "state" /\ pc = "done"
      /\ Len(lines) >= 2 /\ lines[1] \in HeaderLines /\ IsSeparator(lines[2]) )
    => \A f \in DOMAIN HeaderKeys :
           HeaderKey(lines[1]) \in HeaderKeys[f] =>
               novel[f] = IF f = "Tags" THEN SplitTags(HeaderValue(lines[1]), 1, <<>>)
                          ELSE HeaderValue(lines[1])

\* the delimiters of a tag list
TagDelimiters == {",", ";", "fcomma", "fsemi"}

RECURSIVE Fragments(_, _, _)
\* the pieces of value between delimiters from index k on, empty ones too,
\* each trimmed; piece is the one being read
Fragments(value, k, piece) ==
    IF k > Len(value) THEN <<TrimSpace(piece)>>
    ELSE IF value[k] \in TagDelimiters
      THEN <<TrimSpace(piece)>> \o Fragments(value, k + 1, <<>>)
    ELSE Fragments(value, k + 1, Append(piece, value[k]))

\* C19: the tags are the fragments of the value between the delimiters
\* , ; and their full-width forms, each trimmed, in order, and none of them
\* is the empty string, even for a fragment of white space only.
C19_TagsTrimmedNonEmpty ==
    (mode = "setNovelMetadata" /\ pc = "done") =>
        /\ \A k \in 1..Len(novel.Tags) : novel.Tags[k] # <<>>
        /\ novel.Tags = SelectSeq(Fragments(fmtLine, 1, <<>>), LAMBDA t : t # <<>>)

\* the line matches nothing: it is not blank, no separator, no metadata line
\* and no marker
Unmatched(line) ==
    /\ IsBodyLine(line)
    /\ IdentifyChapterType(TrimSpace(line)).type = ChapterTypeUnknown

\* a turn of the loop of ParseWithState takes the next line, and no other,
\* and the loop ends after the last line
C20_Consumes ==
    (mode = "state" /\ pc = "loop") =>
        /\ lines' = lines
        /\ IF i < Len(lines) THEN i' = i + 1 /\ pc' = "loop"
           ELSE i' = i /\ pc' = "done"

\* a line that matches nothing joins the content lines
C20_Kept ==
    ( /\ mode = "state" /\ pc = "loop" /\ i < Len(lines)
      /\ Unmatched(lines[i + 1]) )
    => ctx'.contentLines = Append(ctx.contentLines, TrimSpace(lines[i + 1]))

\* the lines are taken in order, each once
C20_InOrder == [][C20_Consumes]_vars

\* every parse ends, all lines taken
C20_Terminates == <>(pc = "done" /\ i = Len(lines))

\* C20: ParseWithState takes the lines in order, each exactly once, ends
\* after the last one without an error, and a line that matches nothing
\* becomes content.
C20_TotalParse == [][C20_Consumes /\ C20_Kept]_vars

\* the title holds no Arabic digit and no character of a Han numeral
HasNoNumeral(title) ==
    \A k \in 1..Len(title) : title[k] \notin Digits \cup HanNumerals

\* C21: ExtractNumber returns 0 for every title that holds neither an Arabic
\* digit nor a character of a Han numeral.
C21_NoNumeralGivesZero ==
    (mode = "ExtractNumber" /\ fmtOut # Nil /\ HasNoNumeral(fmtLine))
        => fmtOut[1] = 0

\* ExtractNumber has returned for a title of two characters, none a numeral
C21_Witness ==
    /\ mode = "ExtractNumber" /\ fmtOut # Nil
    /\ Len(fmtLine) = 2 /\ HasNoNumeral(fmtLine)

\* the line begins with a marker N.N: digits, a dot, digits
BeginsDotted(line) ==
    LET s == TrimSpace(line)
        a == SpanEnd(s, 1, Digits)
    IN  /\ a > 1
        /\ a + 1 <= Len(s)
        /\ s[a] = "."
        /\ s[a + 1] \in Digits

\* C22: a line that begins with a section marker N.N is classified as
\* Section by IdentifyChapterType.
C22_DottedIsSection ==
    (mode = "fmt" /\ fmtOut # Nil /\ BeginsDotted(fmtLine))
        => fmtOut[1].type = ChapterTypeSection

\* C23: two concurrent calls of ParseWithState on one parser with different
\* Novels do not interfere: the Novel of each call, when the call has
\* returned, is the Novel the call produces when it runs alone.
C23_CallsIndependent ==
    mode = "par" =>
        \A call \in Calls :
            pc[call] = "done" =>
                novel[call] = ParseWithState(NewNovel(FileTitle), lines[call])

\* call 1 has returned with a chapter while call 2, on another input, is
\* still running with an open chapter and lines in its accumulator
C23_Witness ==
    /\ mode = "par"
    /\ pc[1] = "done" /\ Len(novel[1].Chapters) >= 1
    /\ pc[2] = "loop"
    /\ ctx[2].currentChapter # Nil /\ ctx[2].contentLines # <<>>
    /\ lines[1] # lines[2]

\* the index (from 1) of the delimiter that closes the metadata block of the
\* file, Len + 1 when the block is left open, 0 when the file has no block
RECURSIVE NextMetaRule(_, _)
NextMetaRule(ls, k) ==
    IF k > Len(ls) THEN k
    ELSE IF IsMetaRule(ls[k]) THEN k
    ELSE NextMetaRule(ls, k + 1)

BlockEnd(ls) ==
    IF ls # <<>> /\ IsMetaRule(ls[1]) THEN NextMetaRule(ls, 2) ELSE 0

RECURSIVE ApplyMeta(_, _, _, _)
\* the Novel after the lines ls[k..e] were read as metadata
ApplyMeta(nv, ls, k, e) ==
    IF k > e THEN nv ELSE ApplyMeta(parseMetaLine(nv, ls[k]), ls, k + 1, e)

\* the indices of the chapter headings after the metadata block
HeadingIndices(ls) ==
    {k \in (BlockEnd(ls) + 1)..Len(ls) : MdChapterMatch(ls[k]) # Nil}

\* the heading that opens the j-th chapter, and the end of that chapter
HeadingOf(ls, j) ==
    CHOOSE k \in HeadingIndices(ls) :
        Cardinality({h \in HeadingIndices(ls) : h < k}) = j - 1

ChapterEnd(ls, j) ==
    IF j < Cardinality(HeadingIndices(ls)) THEN HeadingOf(ls, j + 1) - 1
    ELSE Len(ls)

\* C24: in single-file Markdown mode the lines between a first-line --- and
\* the next --- are metadata: they set title, author, description and cover
\* and no other line does; no chapter's content holds one of them; the
\* content of a chapter is every line from its heading to the next heading,
\* a --- line after the closing delimiter included.
C24_FrontMatterOnly ==
    (mode = "mdfile" /\ pc = "done") =>
        LET e == BlockEnd(lines)
            read == ApplyMeta([NewMdNovel EXCEPT !.Title = FileTitle],
                              lines, 2, e - 1)
        IN  /\ novel.Title = read.Title
            /\ novel.Author = read.Author
            /\ novel.Description = read.Description
            /\ novel.Cover = read.Cover
            /\ Len(novel.Chapters) = Cardinality(HeadingIndices(lines))
            /\ \A j \in 1..Len(novel.Chapters) :
                   novel.Chapters[j].Content =
                       JoinLines(SubSeq(lines, HeadingOf(lines, j) + 1,
                                        ChapterEnd(lines, j)))

\* a file with a metadata block that sets the title, a heading, and a ---
\* line in the chapter, has been read
C24_Witness ==
    /\ mode = "mdfile" /\ pc = "done"
    /\ lines = <<MetaRule, MdTitleLine, MetaRule, Heading, MetaRule>>
    /\ novel.Title # FileTitle
    /\ Len(novel.Chapters) = 1
    /\ novel.Chapters[1].Content = <<MetaRule>>

\* the index after the marker that the pattern of type t matches in s
MarkerEnd(t, s) ==
    CASE t = ChapterTypePrologue -> PrologueMarkerEnd(s)
      [] t = ChapterTypeEpilogue -> EpilogueMarkerEnd(s)
      [] t = ChapterTypeSummary -> SummaryMarkerEnd(s)
      [] t = ChapterTypeVolume -> VolumeMarkerEnd(s)
      [] t = ChapterTypeChapter -> ChapterMarkerEnd(s)
      [] t = ChapterTypeSection -> SectionMarkerEnd(s)

\* the part of the line before its first colon, of either width, trimmed
BeforeFirstColon(s) ==
    IF FirstColon(s) = 0 THEN TrimSpace(s)
    ELSE TrimSpace(SubSeq(s, 1, FirstColon(s) - 1))

\* C25: for every class, when the marker line has no title text after the
\* marker, the title IdentifyChapterType returns is the part of the line
\* before the first colon (ASCII or full-width), trimmed.
C25_TitleBeforeColon ==
    ( /\ mode = "fmt" /\ fmtOut # Nil
      /\ fmtOut[1].type # ChapterTypeUnknown
      /\ TrimSpace(Capture(TrimSpace(fmtLine),
                           MarkerEnd(fmtOut[1].type, TrimSpace(fmtLine)))) = <<>> )
    => fmtOut[1].title = BeforeFirstColon(TrimSpace(fmtLine))

\* the states that hand their lines to ContentState
Delegating == {"Chapter", "Volume", "Prologue", "Epilogue"}

\* a line handled in a delegating state leaves the context and the Novel as
\* ContentState.HandleLine leaves them
C26_DelegatingStep ==
    ( /\ mode = "state" /\ pc = "loop" /\ i' = i + 1
      /\ ctx.state \in Delegating )
    => <<ctx', novel'>> = ContentStateHandleLine(ctx, novel, lines[i + 1], i)

C27_IgnoredStep ==
    ( /\ mode = "state" /\ pc = "loop" /\ i' = i + 1
      /\ ctx.state = "Metadata"
      /\ i <= MetadataLookahead
      /\ IsBodyLine(lines[i + 1]) )
    => ctx' = ctx /\ novel' = novel

\* C27: in state Metadata a non-blank line that is neither a separator nor
\* a recognized metadata line, handled inside the lookahead window, changes
\* nothing: title, author, description, the chapter list, the counters, the
\* accumulator and the state stay as they were.
C27_UnrecognizedIgnored == [][C27_IgnoredStep]_vars

\* the line at the last index of the window has been handled in state
\* Metadata; it was a plain line
C27_Witness ==
    /\ mode = "state" /\ pc = "loop"
    /\ i = MetadataLookahead + 1
    /\ ctx.state = "Metadata"
    /\ IsBodyLine(lines[i])
    /\ ctx.contentLines = <<>> /\ novel.Chapters = <<>>

\* the input has no separator line
NoSeparator == \A k \in 1..Len(lines) : ~IsSeparator(TrimSpace(lines[k]))

\* a line at an index beyond the lookahead bound leaves title, author and
\* description as they were
C28_BeyondStep ==
    ( /\ mode = "state" /\ pc = "loop" /\ i' = i + 1
      /\ i > MetadataLookahead
      /\ NoSeparator )
    => /\ novel'.Title = novel.Title
       /\ novel'.Author = novel.Author
       /\ novel'.Description = novel.Description

\* C28: the header window is bounded: a line at an index beyond the
\* lookahead bound is never read as a metadata line, so on an input with no
\* separator title, author and description no longer change once the bound
\* is passed.
C28_WindowBounded == [][C28_BeyondStep]_vars

\* the indices of the marker lines of a file whose first line is a separator
MarkerIndices ==
    {k \in 2..Len(lines) :
        /\ ~IsSeparator(TrimSpace(lines[k]))
        /\ LineType(k) # ChapterTypeUnknown}

\* the index of the last line before the next marker after line k
SegmentEnd(k) ==
    IF \E m \in MarkerIndices : m > k
      THEN (CHOOSE m \in MarkerIndices :
                m > k /\ \A n \in MarkerIndices : n > k => m <= n) - 1
      ELSE Len(lines)

\* the content the lines between marker k and the next marker give
SegmentContent(k) ==
    CleanContent(JoinLines(
        SelectSeq(SubSeq(lines, k + 1, SegmentEnd(k)),
                  LAMBDA l : ~IsSeparator(TrimSpace(l)))))

\* C29: the content of every chapter is built only from the lines after that
\* chapter's marker line and before the next marker line; lines before the
\* first marker are in no chapter.
C29_ContentFromOwnLines ==
    ( /\ mode = "state" /\ pc = "done"
      /\ Len(lines) >= 1 /\ IsSeparator(TrimSpace(lines[1])) )
    => \A c \in 1..Len(novel.Chapters) :
           \E k \in MarkerIndices :
               novel.Chapters[c].Content = SegmentContent(k)

\* the line is a marker line: not blank, no separator, no metadata line, and
\* of a known type
IsMarkerLine(line) ==
    /\ IsBodyLine(line)
    /\ IdentifyChapterType(TrimSpace(line)).type # ChapterTypeUnknown

\* the state is never Metadata again once it was left
C30_NoReturn ==
    (mode = "state" /\ pc = "loop" /\ i' = i + 1 /\ ctx.state # "Metadata")
        => ctx'.state # "Metadata"

\* after a marker line the state is the state of the marker's role
C30_AfterMarker ==
    ( /\ mode = "state" /\ pc = "loop" /\ i' = i + 1
      /\ IsMarkerLine(lines[i + 1]) )
    => ctx'.state = StateAfter(IdentifyChapterType(TrimSpace(lines[i + 1])).type)

\* a line that is no marker, handled outside Metadata, leaves the state
C30_OtherLines ==
    ( /\ mode = "state" /\ pc = "loop" /\ i' = i + 1
      /\ ctx.state # "Metadata"
      /\ \/ IsSeparator(TrimSpace(lines[i + 1]))
         \/ IdentifyChapterType(TrimSpace(lines[i + 1])).type = ChapterTypeUnknown )
    => ctx'.state = ctx.state

\* C30: the state is Metadata at the start and never again once left; after
\* a marker line it is Prologue, Epilogue or Volume for those roles and
\* Chapter for Chapter, Section and Summary markers; blank, plain and
\* separator lines handled outside Metadata never change it.
C30_StateTransitions ==
    /\ [](mode = "state" /\ i = 0 => ctx.state = "Metadata")
    /\ [][C30_NoReturn /\ C30_AfterMarker /\ C30_OtherLines]_vars


\* ------------------------------------------------------------------------
\* Counters, chapter types, the two TXT parsers, observers (C31..C34)
\* ------------------------------------------------------------------------

\* the line types that have a counter
CountedTypes == {ChapterTypeVolume, ChapterTypeChapter, ChapterTypeSection}

\* the three counters of the ParseContext
StateCounters(c) == <<c.volumeID, c.chapterID, c.sectionID>>

\* the three counters of parseContentOld
OldCounters(o) == <<o.currentVolumeID, o.currentChapterID, o.currentSectionID>>

\* a turn of the loop of ParseWithState on a line that is no Volume, Chapter
\* or Section line leaves the counters of the context as they were
C31_StateStep ==
    ( /\ mode = "state" /\ pc = "loop" /\ i' = i + 1
      /\ LineType(i + 1) \notin CountedTypes )
    => StateCounters(ctx') = StateCounters(ctx)

\* a turn of the loop of parseContentOld on such a line leaves its counters
\* as they were
C31_OldStep ==
    ( /\ mode = "dir" /\ pc = "loop" /\ pc' = "loop" /\ i' = i + 1
      /\ LineType(i + 1) \notin CountedTypes )
    => OldCounters(old') = OldCounters(old)

\* no counter of either parser is negative
C31_NonNegative ==
    /\ mode = "state" => \A k \in 1..3 : StateCounters(ctx)[k] >= 0
    /\ mode = "dir" /\ pc = "loop" => \A k \in 1..3 : OldCounters(old)[k] >= 0

\* C31: Prologue, Epilogue and Summary marker lines, separator lines, blank
\* lines and plain content lines leave the volume, chapter and section
\* counters unchanged; only Volume, Chapter and Section lines modify a
\* counter, and no counter is ever negative.
C31_CounterFrame ==
    [][C31_StateStep /\ C31_OldStep]_vars /\ []C31_NonNegative

\* the state machine has handled a Prologue line after a Chapter line and the
\* chapter counter is still 1
C31_Witness ==
    /\ mode = "state" /\ pc = "loop" /\ i >= 2
    /\ LineType(i) = ChapterTypePrologue
    /\ ctx.chapterTypes # <<>>
    /\ ctx.chapterTypes[Len(ctx.chapterTypes)] = ChapterTypePrologue
    /\ ctx.chapterID = 1


\* C32: after ParseWithState has processed any input, ParseContext.chapterTypes
\* has exactly one entry per chapter of novel.Chapters (as many entries as
\* the Novel has chapters, the precondition ChapterProcessor.ProcessNovel
\* checks).
C32_OneTypePerChapter ==
    (mode = "state" /\ pc = "done")
    => Len(ctx.chapterTypes) = Len(novel.Chapters)

\* chapterTypes never has fewer entries than the Novel has chapters: a type
\* is recorded at every marker, a chapter only when the marker has content
C32_NoFewerTypes ==
    (mode = "state" /\ pc = "done")
    => Len(ctx.chapterTypes) >= Len(novel.Chapters)


\* the chapters of a Novel as the claim compares them: ID, title and content
\* of each, in order
ChapterList(nv) ==
    [k \in 1..Len(nv.Chapters) |->
        <<nv.Chapters[k].ID, nv.Chapters[k].Title, nv.Chapters[k].Content>>]

\* the two Novels have the same chapters and the same title, author and
\* description
SameNovel(a, b) ==
    /\ ChapterList(a) = ChapterList(b)
    /\ a.Title = b.Title /\ a.Author = b.Author
    /\ a.Description = b.Description

\* C33: for every input ParseWithState and parseContentOld with
\* convertToStandardChapters produce the same number of chapters with the
\* same contents in the same order, and the same title, author and
\* description.
C33_SameAsLegacy ==
    (mode = "state" /\ pc = "done")
    => SameNovel(novel, parseContentOld(NewNovel(FileTitle), lines))


\* ------------------------------------------------------------------------
\* The observers of StatefulTxtParser (part_000, state.go)
\*
\* In mode "obs" files is the slice ParseNotifier.observers, old gives for
\* every observer the goroutines NotifyObservers started for it that have not
\* run yet (the event each carries), tempNovel gives the events each
\* observer's OnParseEvent has handled, in the order of handling, and fmtOut
\* is the sequence of events ParseWithState has emitted.
\* ------------------------------------------------------------------------

\* the observers that can subscribe
Observers == {1, 2}

\* the longest input of an observed call
MaxObsLen == 3

\* the inputs of an observed call
ObsInputs == SeqsUpTo({Sep, ChapterOne, Plain}, MaxObsLen) \ {<<>>}

\* ParseEventData: the event, its progress as the fraction done / total
\* (the float64 is done / total * 100) and what the message counts
ParseEventData(event, done, total, count) ==
    [Event |-> event, Progress |-> <<done, total>>, Count |-> count]

\* NotifyObservers(data): one goroutine for every subscribed observer
NotifyObservers(pending, observers, data) ==
    [o \in DOMAIN pending |->
        IF \E k \in 1..Len(observers) : observers[k] = o
          THEN pending[o] \cup {data}
          ELSE pending[o]]

\* the condition under which the loop of ParseWithState reports progress
ReportsProgress(idx, totalLines) == idx % 100 = 0 \/ idx = totalLines - 1

\* Subscribe was called for the observers of subs, then ParseWithState is
\* called on the lines ls
InitObs ==
    \E subs \in {<<1>>, <<1, 2>>, <<2, 1>>} : \E ls \in ObsInputs :
        /\ mode = "obs" /\ pc = "start"
        /\ files = subs /\ fileIdx = 1
        /\ lines = ls /\ i = 0
        /\ novel = NewNovel(FileTitle)
        /\ ctx = NewParseContext
        /\ old = [o \in Observers |-> {}]
        /\ tempNovel = [o \in Observers |-> <<>>]
        /\ chapterID = 0 /\ fmtLine = <<>> /\ fmtOut = <<>>

\* the start of ParseWithState: the Start event
ObsStart ==
    /\ mode = "obs" /\ pc = "start"
    /\ LET data == ParseEventData("Start", 0, 1, 0)
       IN  /\ old' = NotifyObservers(old, files, data)
           /\ fmtOut' = Append(fmtOut, data)
    /\ pc' = "loop"
    /\ UNCHANGED <<mode, files, fileIdx, lines, i, novel, ctx, tempNovel,
                   chapterID, fmtLine>>

\* one turn of the loop of ParseWithState: the line is handled, then progress
\* is reported
ObsLoopStep ==
    /\ mode = "obs" /\ pc = "loop" /\ i < Len(lines)
    /\ LET r == HandleLine(ctx, novel, lines[i + 1], i)
       IN  ctx' = r[1] /\ novel' = r[2]
    /\ IF ReportsProgress(i, Len(lines))
         THEN LET data == ParseEventData("Progress", i + 1, Len(lines), i + 1)
              IN  /\ old' = NotifyObservers(old, files, data)
                  /\ fmtOut' = Append(fmtOut, data)
         ELSE UNCHANGED <<old, fmtOut>>
    /\ i' = i + 1
    /\ UNCHANGED <<mode, pc, files, fileIdx, lines, tempNovel, chapterID,
                   fmtLine>>

\* the end of ParseWithState: the last chapter is saved, then the Complete
\* event
ObsEnd ==
    /\ mode = "obs" /\ pc = "loop" /\ i = Len(lines)
    /\ LET r == SaveCurrentChapter(ctx, novel)
           data == ParseEventData("Complete", 0, 1, Len(r[2].Chapters))
       IN  /\ ctx' = r[1] /\ novel' = r[2]
           /\ old' = NotifyObservers(old, files, data)
           /\ fmtOut' = Append(fmtOut, data)
    /\ pc' = "done"
    /\ UNCHANGED <<mode, files, fileIdx, lines, i, tempNovel, chapterID,
                   fmtLine>>

\* one of the goroutines NotifyObservers started runs: the observer's
\* OnParseEvent handles the event; the scheduler picks the goroutine
OnParseEvent ==
    /\ mode = "obs"
    /\ \E o \in Observers : \E data \in old[o] :
          /\ tempNovel' = [tempNovel EXCEPT ![o] = Append(@, data)]
          /\ old' = [old EXCEPT ![o] = @ \ {data}]
    /\ UNCHANGED <<mode, pc, files, fileIdx, lines, i, novel, ctx, chapterID,
                   fmtLine, fmtOut>>

NextObs == ObsStart \/ ObsLoopStep \/ ObsEnd \/ OnParseEvent

SpecObs == InitObs /\ [][NextObs]_vars

\* the place of an event in the sequence ParseWithState emitted
EmittedAt(data) == CHOOSE k \in 1..Len(fmtOut) : fmtOut[k] = data

\* C34: every observer subscribed to a StatefulTxtParser handles the events
\* of one ParseWithState call in the order they are emitted: Start first,
\* progress events in increasing progress, Complete last.
C34_HandledInOrder ==
    mode = "obs"
    => \A o \in Observers :
           \A a \in 1..Len(tempNovel[o]) : \A b \in (a + 1)..Len(tempNovel[o]) :
               EmittedAt(tempNovel[o][a]) < EmittedAt(tempNovel[o][b])

\* every event has one goroutine per subscribed observer: an observer never
\* handles an event twice or an event that was not emitted
C34_EachEventOnce ==
    mode = "obs"
    => \A o \in Observers :
           /\ \A a \in 1..Len(tempNovel[o]) :
                  /\ \E k \in 1..Len(fmtOut) : fmtOut[k] = tempNovel[o][a]
                  /\ \A b \in 1..Len(tempNovel[o]) :
                         tempNovel[o][a] = tempNovel[o][b] => a = b
           /\ (\A k \in 1..Len(files) : files[k] # o) => tempNovel[o] = <<>>


\* ------------------------------------------------------------------------
\* The dependency injection container (internal/di/container.go) with the
\* services Application.initializeDI registers (part_002)
\*
\* In mode "di" ctx gives every goroutine its stack of Resolve calls, old is
\* Container.mutex, novel gives every registered service its
\* descriptor.Instance, chapterID counts the calls each goroutine has made
\* and fmtOut holds the result of each goroutine's last call.
\* ------------------------------------------------------------------------

\* the goroutines that use the container
Goroutines == {1, 2}

\* the calls of Resolve one goroutine makes
MaxResolves == 2

\* the lifetimes initializeDI registers; "Logger" is not registered
Lifetime ==
    [Config |-> "Singleton", Parser |-> "Transient", Generator |-> "Singleton",
     ErrorManager |-> "Singleton"]

Registered == DOMAIN Lifetime

\* the service types a caller can ask for
ServiceTypes == Registered \cup {"Logger"}

\* a call of Resolve(svc): where it is, whether it holds the write lock (its
\* deferred Unlock is pending), and what it is about to return
ResolveFrame(svc) == [svc |-> svc, pc |-> "rlock", locked |-> FALSE, res |-> "none"]

\* the top frame of a stack with its fields changed
SetTop(stack, frame) == [stack EXCEPT ![Len(stack)] = frame]

\* the factory of svc calls Resolve on the container it is given
FactoryResolves(svc) == IF svc = "Generator" THEN <<"Config">> ELSE <<>>

\* the state after construction: nothing is resolved yet
InitDI ==
    /\ mode = "di" /\ pc = "run"
    /\ files = <<>> /\ fileIdx = 1 /\ lines = <<>> /\ i = 0
    /\ novel = [s \in Registered |-> "nil"]
    /\ ctx = [g \in Goroutines |-> <<>>]
    /\ old = [writer |-> 0, readers |-> {}]
    /\ tempNovel = NewNovel(<<>>)
    /\ chapterID = [g \in Goroutines |-> 0]
    /\ fmtLine = <<>>
    /\ fmtOut = [g \in Goroutines |-> "none"]

\* a goroutine calls Resolve
DICall ==
    /\ mode = "di"
    /\ \E g \in Goroutines : \E svc \in ServiceTypes :
          /\ ctx[g] = <<>> /\ chapterID[g] < MaxResolves
          /\ ctx' = [ctx EXCEPT ![g] = <<ResolveFrame(svc)>>]
          /\ chapterID' = [chapterID EXCEPT ![g] = @ + 1]
    /\ UNCHANGED <<mode, pc, files, fileIdx, lines, i, novel, old, tempNovel,
                   fmtLine, fmtOut>>

\* c.mutex.RLock(): waits while a writer holds the lock
DIRLock ==
    /\ mode = "di"
    /\ \E g \in Goroutines :
          /\ ctx[g] # <<>> /\ ctx[g][Len(ctx[g])].pc = "rlock"
          /\ old.writer = 0
          /\ old' = [old EXCEPT !.readers = @ \cup {g}]
          /\ ctx' = [ctx EXCEPT ![g] = SetTop(@, [@[Len(@)] EXCEPT !.pc = "read"])]
    /\ UNCHANGED <<mode, pc, files, fileIdx, lines, i, novel, tempNovel,
                   chapterID, fmtLine, fmtOut>>

\* the descriptor is read, c.mutex.RUnlock(), then the switch on the lifetime
DIRead ==
    /\ mode = "di"
    /\ \E g \in Goroutines :
          /\ ctx[g] # <<>> /\ ctx[g][Len(ctx[g])].pc = "read"
          /\ old' = [old EXCEPT !.readers = @ \ {g}]
          /\ LET top == ctx[g][Len(ctx[g])]
                 next == IF top.svc \notin Registered
                           THEN [top EXCEPT !.pc = "return", !.res = "error"]
                         ELSE IF Lifetime[top.svc] = "Singleton"
                           THEN [top EXCEPT !.pc = "fast"]
                         ELSE [top EXCEPT !.pc = "factory"]
             IN  ctx' = [ctx EXCEPT ![g] = SetTop(@, next)]
    /\ UNCHANGED <<mode, pc, files, fileIdx, lines, i, novel, tempNovel,
                   chapterID, fmtLine, fmtOut>>

\* case Singleton: the instance is returned if there is one
DIFast ==
    /\ mode = "di"
    /\ \E g \in Goroutines :
          /\ ctx[g] # <<>> /\ ctx[g][Len(ctx[g])].pc = "fast"
          /\ LET top == ctx[g][Len(ctx[g])]
                 next == IF novel[top.svc] # "nil"
                           THEN [top EXCEPT !.pc = "return", !.res = "instance"]
                           ELSE [top EXCEPT !.pc = "lock"]
             IN  ctx' = [ctx EXCEPT ![g] = SetTop(@, next)]
    /\ UNCHANGED <<mode, pc, files, fileIdx, lines, i, novel, old, tempNovel,
                   chapterID, fmtLine, fmtOut>>

\* c.mutex.Lock(): waits while a writer or a reader holds the lock; the
\* Unlock is deferred to the return of this call
DILock ==
    /\ mode = "di"
    /\ \E g \in Goroutines :
          /\ ctx[g] # <<>> /\ ctx[g][Len(ctx[g])].pc = "lock"
          /\ old.writer = 0 /\ old.readers = {}
          /\ old' = [old EXCEPT !.writer = g]
          /\ ctx' = [ctx EXCEPT ![g] =
                        SetTop(@, [@[Len(@)] EXCEPT !.pc = "double", !.locked = TRUE])]
    /\ UNCHANGED <<mode, pc, files, fileIdx, lines, i, novel, tempNovel,
                   chapterID, fmtLine, fmtOut>>

\* the double check under the lock
DIDouble ==
    /\ mode = "di"
    /\ \E g \in Goroutines :
          /\ ctx[g] # <<>> /\ ctx[g][Len(ctx[g])].pc = "double"
          /\ LET top == ctx[g][Len(ctx[g])]
                 next == IF novel[top.svc] # "nil"
                           THEN [top EXCEPT !.pc = "return", !.res = "instance"]
                           ELSE [top EXCEPT !.pc = "factory"]
             IN  ctx' = [ctx EXCEPT ![g] = SetTop(@, next)]
    /\ UNCHANGED <<mode, pc, files, fileIdx, lines, i, novel, old, tempNovel,
                   chapterID, fmtLine, fmtOut>>

\* descriptor.Factory(c): the factories of Config, Parser and ErrorManager
\* return their value; the factory of Generator first calls
\* container.Resolve for Config
DIFactory ==
    /\ mode = "di"
    /\ \E g \in Goroutines :
          /\ ctx[g] # <<>> /\ ctx[g][Len(ctx[g])].pc = "factory"
          /\ LET top == ctx[g][Len(ctx[g])]
             IN  IF FactoryResolves(top.svc) # <<>>
                   THEN ctx' = [ctx EXCEPT ![g] =
                                   Append(SetTop(@, [top EXCEPT !.pc = "resolved"]),
                                          ResolveFrame(FactoryResolves(top.svc)[1]))]
                 ELSE IF Lifetime[top.svc] = "Singleton"
                   THEN ctx' = [ctx EXCEPT ![g] =
                                   SetTop(@, [top EXCEPT !.pc = "store",
                                                         !.res = "instance"])]
                 ELSE ctx' = [ctx EXCEPT ![g] =
                                 SetTop(@, [top EXCEPT !.pc = "return",
                                                       !.res = "instance"])]
    /\ UNCHANGED <<mode, pc, files, fileIdx, lines, i, novel, old, tempNovel,
                   chapterID, fmtLine, fmtOut>>

\* descriptor.Instance = instance
DIStore ==
    /\ mode = "di"
    /\ \E g \in Goroutines :
          /\ ctx[g] # <<>> /\ ctx[g][Len(ctx[g])].pc = "store"
          /\ novel' = [novel EXCEPT ![ctx[g][Len(ctx[g])].svc] = "instance"]
          /\ ctx' = [ctx EXCEPT ![g] = SetTop(@, [@[Len(@)] EXCEPT !.pc = "return"])]
    /\ UNCHANGED <<mode, pc, files, fileIdx, lines, i, old, tempNovel,
                   chapterID, fmtLine, fmtOut>>

\* Resolve returns: the deferred Unlock runs; the result goes to the caller
\* of the goroutine or to the factory that called Resolve, which returns the
\* error it got or goes on to CreateGeneratorSuite, which can fail
DIReturn ==
    /\ mode = "di"
    /\ \E g \in Goroutines :
          /\ ctx[g] # <<>> /\ ctx[g][Len(ctx[g])].pc = "return"
          /\ LET n == Len(ctx[g])
                 top == ctx[g][n]
             IN  /\ old' = IF top.locked THEN [old EXCEPT !.writer = 0] ELSE old
                 /\ IF n = 1
                      THEN /\ ctx' = [ctx EXCEPT ![g] = <<>>]
                           /\ fmtOut' = [fmtOut EXCEPT ![g] = top.res]
                      ELSE /\ \E suite \in {"instance", "error"} :
                                 LET caller == ctx[g][n - 1]
                                     next == IF top.res = "error" \/ suite = "error"
                                               THEN [caller EXCEPT !.pc = "return",
                                                                   !.res = "error"]
                                               ELSE [caller EXCEPT !.pc = "store",
                                                                   !.res = "instance"]
                                 IN  ctx' = [ctx EXCEPT ![g] =
                                                SetTop(SubSeq(@, 1, n - 1), next)]
                           /\ UNCHANGED fmtOut
    /\ UNCHANGED <<mode, pc, files, fileIdx, lines, i, novel, tempNovel,
                   chapterID, fmtLine>>

NextDI ==
    DICall \/ DIRLock \/ DIRead \/ DIFast \/ DILock \/ DIDouble \/ DIFactory
    \/ DIStore \/ DIReturn

SpecDI == InitDI /\ [][NextDI]_vars

\* goroutine g runs a Resolve call that waits for the read lock while a
\* Resolve call of g itself, further down its stack, holds the write lock
WaitsForItself(g) ==
    /\ ctx[g] # <<>>
    /\ ctx[g][Len(ctx[g])].pc = "rlock"
    /\ old.writer = g

\* C35: Container.Resolve of a singleton service always terminates, also
\* when the service's factory itself calls Resolve on the same container: it
\* never blocks forever on the container's lock. A call that waits for a
\* lock its own goroutine holds waits forever, so no call does.
C35_NeverWaitsForItself ==
    mode = "di" => \A g \in Goroutines : ~WaitsForItself(g)

\* Resolve of a service whose factory does not call Resolve never holds the
\* lock while it waits for it
C35_LeafNeverWaits ==
    mode = "di"
    => \A g \in Goroutines :
           WaitsForItself(g) => ctx[g][1].svc = "Generator"


\* ------------------------------------------------------------------------
\* The command invoker (internal/parser/command.go)
\*
\* In mode "cmd" ctx gives every ParseNovelCommand its field executed, novel
\* is the CommandInvoker, chapterID counts the operations made and fmtOut is
\* Nil or holds the operation made last and whether it returned an error.
\* ------------------------------------------------------------------------

\* the ParseNovelCommand objects of the caller
Commands == {1, 2, 3}

\* the operations made on one invoker
MaxOps == 5

\* NewCommandInvoker: current is an index from 0, -1 for none
NewCommandInvoker == [commands |-> <<>>, current |-> -1]

\* ParseNovelCommand.Execute where the parse succeeds (ok) or fails:
\* <<executed flags, whether an error is returned>>
CommandExecute(executed, c, ok) ==
    IF executed[c] THEN <<executed, TRUE>>
    ELSE IF ~ok THEN <<executed, TRUE>>
    ELSE <<[executed EXCEPT ![c] = TRUE], FALSE>>

\* ParseNovelCommand.Undo
CommandUndo(executed, c) ==
    IF ~executed[c] THEN <<executed, TRUE>>
    ELSE <<[executed EXCEPT ![c] = FALSE], FALSE>>

\* the commands are new, the invoker is new
InitCmd ==
    /\ mode = "cmd" /\ pc = "run"
    /\ files = <<>> /\ fileIdx = 1 /\ lines = <<>> /\ i = 0
    /\ novel = NewCommandInvoker
    /\ ctx = [c \in Commands |-> FALSE]
    /\ old = NewOldLocals
    /\ tempNovel = NewNovel(<<>>)
    /\ chapterID = 0
    /\ fmtLine = <<>>
    /\ fmtOut = Nil

\* the operation op returned, with an error or without
Returned(op, err) ==
    /\ fmtOut' = <<[op |-> op, err |-> err]>>
    /\ chapterID' = chapterID + 1
    /\ UNCHANGED <<mode, pc, files, fileIdx, lines, i, old, tempNovel, fmtLine>>

\* CommandInvoker.Execute(command)
InvokerExecute ==
    /\ mode = "cmd" /\ chapterID < MaxOps
    /\ \E c \in Commands : \E ok \in BOOLEAN :
          LET kept == IF novel.current < Len(novel.commands) - 1
                        THEN SubSeq(novel.commands, 1, novel.current + 1)
                        ELSE novel.commands
              r == CommandExecute(ctx, c, ok)
          IN  /\ ctx' = r[1]
              /\ IF r[2]
                   THEN novel' = [novel EXCEPT !.commands = kept]
                   ELSE novel' = [commands |-> Append(kept, c),
                                  current |-> novel.current + 1]
              /\ Returned("Execute", r[2])

\* CommandInvoker.Undo()
InvokerUndo ==
    /\ mode = "cmd" /\ chapterID < MaxOps
    /\ IF novel.current < 0
         THEN /\ UNCHANGED <<novel, ctx>>
              /\ Returned("Undo", TRUE)
         ELSE LET r == CommandUndo(ctx, novel.commands[novel.current + 1])
              IN  /\ ctx' = r[1]
                  /\ novel' = IF r[2] THEN novel
                              ELSE [novel EXCEPT !.current = @ - 1]
                  /\ Returned("Undo", r[2])

\* CommandInvoker.Redo()
InvokerRedo ==
    /\ mode = "cmd" /\ chapterID < MaxOps
    /\ IF novel.current >= Len(novel.commands) - 1
         THEN /\ UNCHANGED <<novel, ctx>>
              /\ Returned("Redo", TRUE)
         ELSE \E ok \in BOOLEAN :
                LET r == CommandExecute(ctx, novel.commands[novel.current + 2], ok)
                IN  /\ novel' = [novel EXCEPT !.current = @ + 1]
                    /\ ctx' = r[1]
                    /\ Returned("Redo", r[2])

\* CommandInvoker.Clear()
InvokerClear ==
    /\ mode = "cmd" /\ chapterID < MaxOps
    /\ novel' = NewCommandInvoker
    /\ UNCHANGED ctx
    /\ Returned("Clear", FALSE)

CanUndo(ci) == ci.current >= 0

CanRedo(ci) == ci.current < Len(ci.commands) - 1

NextCmd == InvokerExecute \/ InvokerUndo \/ InvokerRedo \/ InvokerClear

SpecCmd == InitCmd /\ [][NextCmd]_vars

\* the step is an operation of the invoker that returns an error
FailingStep(op) ==
    /\ mode = "cmd" /\ chapterID' = chapterID + 1
    /\ fmtOut'[1].op = op /\ fmtOut'[1].err

\* C36: a CommandInvoker operation that returns an error leaves the invoker
\* unchanged: after a failing Execute, Undo or Redo the history and the
\* cursor are what they were before the call.
C36_FailureLeavesInvoker ==
    [][(FailingStep("Execute") \/ FailingStep("Undo") \/ FailingStep("Redo"))
       => novel' = novel]_vars

\* a failing Undo leaves the invoker as it was
C36_FailingUndo == [][FailingStep("Undo") => novel' = novel]_vars

\* a failing Execute leaves the cursor and the history up to the cursor
C36_FailingExecute ==
    [][FailingStep("Execute")
       => /\ novel'.current = novel.current
          /\ novel'.commands = SubSeq(novel.commands, 1, novel.current + 1)]_vars

\* a failing Redo that found something to redo has moved the cursor
C36_FailingRedo ==
    [][FailingStep("Redo")
       => /\ novel'.commands = novel.commands
          /\ novel'.current = IF CanRedo(novel) THEN novel.current + 1
                              ELSE novel.current]_vars

\* the cursor is within the history and CanUndo, CanRedo say where it is
C37_CursorInRange ==
    mode = "cmd"
    => /\ -1 <= novel.current /\ novel.current <= Len(novel.commands) - 1
       /\ CanUndo(novel) <=> novel.current >= 0
       /\ CanRedo(novel) <=> novel.current < Len(novel.commands) - 1

\* the commands up to the cursor are executed, those after it are not
C37_ExecutedUpToCursor ==
    mode = "cmd"
    => \A k \in 1..Len(novel.commands) :
           ctx[novel.commands[k]] <=> k <= novel.current + 1

\* C37: after any sequence of Execute, Undo, Redo and Clear on a
\* CommandInvoker, -1 <= current <= len(commands) - 1, exactly the commands
\* at 0..current are executed and those after are not, CanUndo holds iff
\* current >= 0 and CanRedo holds iff current < len(commands) - 1.
C37_InvokerInvariant == C37_CursorInRange /\ C37_ExecutedUpToCursor


\* ------------------------------------------------------------------------
\* The batch command (internal/parser/command.go)
\*
\* In mode "batch" ctx gives every sub-command its field executed, novel is
\* the BatchParseCommand, chapterID counts the operations made and fmtOut is
\* Nil or holds the operation made last and whether it returned an error.
\* ------------------------------------------------------------------------

\* the most sub-commands AddCommand gave the batch
MaxBatchLen == 3

\* the operations made on one batch
MaxBatchOps == 3

\* the batches: one to MaxBatchLen of the ParseNovelCommand objects
BatchInputs == SeqsUpTo({1, 2}, MaxBatchLen) \ {<<>>}

\* NewBatchParseCommand(failOnError) after AddCommand for each of cmds
NewBatchParseCommand(failOnError, cmds) ==
    [commands |-> cmds, results |-> <<>>, executed |-> FALSE,
     failOnError |-> failOnError]

RECURSIVE UndoBefore(_, _, _)
\* the loop that undoes commands[j], commands[j - 1], ... when Execute fails;
\* the errors of Undo are dropped
UndoBefore(executed, cmds, j) ==
    IF j < 1 THEN executed
    ELSE UndoBefore(CommandUndo(executed, cmds[j])[1], cmds, j - 1)

RECURSIVE BatchExecuteLoop(_, _, _, _)
\* the loop of BatchParseCommand.Execute from commands[k] on, where oks[k]
\* says whether the parse of the k-th sub-command succeeds:
\* <<executed flags, batch, whether an error is returned>>
BatchExecuteLoop(executed, b, oks, k) ==
    IF k > Len(b.commands) THEN <<executed, [b EXCEPT !.executed = TRUE], FALSE>>
    ELSE LET r == CommandExecute(executed, b.commands[k], oks[k])
         IN  IF r[2] /\ b.failOnError
               THEN <<UndoBefore(r[1], b.commands, k - 1), b, TRUE>>
             ELSE BatchExecuteLoop(r[1],
                      [b EXCEPT !.results = Append(@, IF r[2] THEN "error" ELSE "novel")],
                      oks, k + 1)

\* BatchParseCommand.Execute
BatchParseCommandExecute(executed, b, oks) ==
    IF b.executed THEN <<executed, b, TRUE>>
    ELSE BatchExecuteLoop(executed, [b EXCEPT !.results = <<>>], oks, 1)

RECURSIVE BatchUndoLoop(_, _, _)
\* the loop of BatchParseCommand.Undo from commands[k] down
BatchUndoLoop(executed, b, k) ==
    IF k < 1
      THEN <<executed, [b EXCEPT !.executed = FALSE, !.results = <<>>], FALSE>>
    ELSE LET r == CommandUndo(executed, b.commands[k])
         IN  IF r[2] THEN <<r[1], b, TRUE>>
             ELSE BatchUndoLoop(r[1], b, k - 1)

\* BatchParseCommand.Undo
BatchParseCommandUndo(executed, b) ==
    IF ~b.executed THEN <<executed, b, TRUE>>
    ELSE BatchUndoLoop(executed, b, Len(b.commands))

\* a new batch of new sub-commands
InitBatch ==
    \E failOnError \in BOOLEAN : \E cmds \in BatchInputs :
        /\ mode = "batch" /\ pc = "run"
        /\ files = <<>> /\ fileIdx = 1 /\ lines = <<>> /\ i = 0
        /\ novel = NewBatchParseCommand(failOnError, cmds)
        /\ ctx = [c \in {1, 2} |-> FALSE]
        /\ old = NewOldLocals
        /\ tempNovel = NewNovel(<<>>)
        /\ chapterID = 0
        /\ fmtLine = <<>>
        /\ fmtOut = Nil

\* a call of Execute on the batch
BatchExecute ==
    /\ mode = "batch" /\ chapterID < MaxBatchOps
    /\ \E oks \in [1..Len(novel.commands) -> BOOLEAN] :
          LET r == BatchParseCommandExecute(ctx, novel, oks)
          IN  /\ ctx' = r[1] /\ novel' = r[2]
              /\ Returned("Execute", r[3])

\* a call of Undo on the batch
BatchUndo ==
    /\ mode = "batch" /\ chapterID < MaxBatchOps
    /\ LET r == BatchParseCommandUndo(ctx, novel)
       IN  /\ ctx' = r[1] /\ novel' = r[2]
           /\ Returned("Undo", r[3])

NextBatch == BatchExecute \/ BatchUndo

SpecBatch == InitBatch /\ [][NextBatch]_vars

\* no sub-command of the batch is executed
NoneExecuted(executed, b) ==
    \A k \in 1..Len(b.commands) : ~executed[b.commands[k]]

\* the step is the operation op on the batch
BatchStep(op) ==
    /\ mode = "batch" /\ chapterID' = chapterID + 1 /\ fmtOut'[1].op = op

\* Undo of a batch whose Execute returned nil returns nil and leaves the
\* batch and every sub-command not executed
C38_UndoStep ==
    (BatchStep("Undo") /\ novel.executed)
    => /\ ~fmtOut'[1].err
       /\ ~novel'.executed
       /\ NoneExecuted(ctx', novel')

\* an Execute that fails with failOnError leaves the batch and every
\* sub-command not executed
C38_FailedExecuteStep ==
    (BatchStep("Execute") /\ novel.failOnError /\ ~novel.executed /\ fmtOut'[1].err)
    => /\ ~novel'.executed
       /\ NoneExecuted(ctx', novel')

\* C38: after BatchParseCommand.Execute returned nil, Undo returns nil and
\* leaves the batch and every sub-command not executed, also when
\* failOnError is false and some sub-commands failed; and when Execute fails
\* with failOnError true, every executed sub-command is undone and the batch
\* stays not executed.
C38_BatchUndo == [][C38_UndoStep /\ C38_FailedExecuteStep]_vars

\* the second half of C38 alone
C38_FailedExecute == [][C38_FailedExecuteStep]_vars

\* the first half of C38 for a batch none of whose sub-commands failed
C38_UndoWhenAllSucceeded ==
    [][(\A k \in 1..Len(novel.results) : novel.results[k] = "novel")
       => C38_UndoStep]_vars


\* ------------------------------------------------------------------------
\* The cached resource (internal/proxy/resource_proxy.go)
\*
\* In mode "cache" novel is the map CachedResource.cache as the set of its
\* entries, fileIdx is maxCacheSize, old gives every path the modification
\* time of its file (0: no such file), chapterID is the clock, ctx gives
\* every goroutine the call it is in, and fmtOut is Nil or the path of the
\* last updateCache.
\* ------------------------------------------------------------------------

\* the paths the callers use
Paths == {"a", "b", "c"}

\* the goroutines that call Load and Save
CacheUsers == {1, 2}

\* the calls one goroutine makes
MaxCacheCalls == 2

\* the largest maxCacheSize
MaxCacheSize == 2

\* the paths that have an entry
CachedPaths(cache) == {e.path : e \in cache}

\* CacheEntry of a path: the time it was stored and the modification time in
\* its FileInfo
CacheEntry(path, timestamp, modTime) ==
    [path |-> path, Timestamp |-> timestamp, ModTime |-> modTime]

\* evictOldestEntry: the caches it can leave; the range over the map finds
\* an entry with the least Timestamp
evictOldestEntry(cache) ==
    IF cache = {} THEN {cache}
    ELSE {cache \ {e} : e \in {x \in cache :
                                  \A y \in cache : x.Timestamp <= y.Timestamp}}

\* updateCache(path, data, info) at time now: the caches it can leave
updateCache(cache, maxCacheSize, path, modTime, now) ==
    LET kept == IF Cardinality(cache) >= maxCacheSize
                  THEN evictOldestEntry(cache)
                  ELSE {cache}
    IN  {{e \in k : e.path # path} \cup {CacheEntry(path, now, modTime)} :
            k \in kept}

\* a goroutine between two calls, with left calls to make
Idle(left) == [pc |-> "idle", path |-> "", modTime |-> 0, left |-> left]

\* NewCachedResource(maxCacheSize); the files a and b exist
InitCache ==
    \E maxCacheSize \in 1..MaxCacheSize :
        /\ mode = "cache" /\ pc = "run"
        /\ files = <<>> /\ fileIdx = maxCacheSize /\ lines = <<>> /\ i = 0
        /\ novel = {}
        /\ ctx = [g \in CacheUsers |-> Idle(MaxCacheCalls)]
        /\ old = [p \in Paths |-> IF p = "c" THEN 0 ELSE 1]
        /\ tempNovel = NewNovel(<<>>)
        /\ chapterID = 2
        /\ fmtLine = <<>>
        /\ fmtOut = Nil

\* a goroutine calls Load(path) or Save(path, data)
CacheCall ==
    /\ mode = "cache"
    /\ \E g \in CacheUsers : \E p \in Paths : \E op \in {"check", "save"} :
          /\ ctx[g].pc = "idle" /\ ctx[g].left > 0
          /\ ctx' = [ctx EXCEPT ![g] = [pc |-> op, path |-> p, modTime |-> 0,
                                        left |-> ctx[g].left - 1]]
    /\ UNCHANGED <<mode, pc, files, fileIdx, lines, i, novel, old, tempNovel,
                   chapterID, fmtLine, fmtOut>>

\* Load under the read lock: the entry is returned if the file has the
\* modification time the entry has
LoadCheck ==
    /\ mode = "cache"
    /\ \E g \in CacheUsers :
          /\ ctx[g].pc = "check"
          /\ LET hit == \E e \in novel : /\ e.path = ctx[g].path
                                         /\ old[e.path] # 0
                                         /\ old[e.path] = e.ModTime
             IN  ctx' = [ctx EXCEPT ![g] =
                            IF hit THEN Idle(ctx[g].left)
                            ELSE [ctx[g] EXCEPT !.pc = "load"]]
    /\ UNCHANGED <<mode, pc, files, fileIdx, lines, i, novel, old, tempNovel,
                   chapterID, fmtLine, fmtOut>>

\* Load after a miss: realResource.Load and GetInfo
LoadReal ==
    /\ mode = "cache"
    /\ \E g \in CacheUsers :
          /\ ctx[g].pc = "load"
          /\ ctx' = [ctx EXCEPT ![g] =
                        IF old[ctx[g].path] = 0 THEN Idle(ctx[g].left)
                        ELSE [ctx[g] EXCEPT !.pc = "update",
                                            !.modTime = old[ctx[g].path]]]
    /\ UNCHANGED <<mode, pc, files, fileIdx, lines, i, novel, old, tempNovel,
                   chapterID, fmtLine, fmtOut>>

\* Save: realResource.Save, which can fail, and GetInfo
SaveReal ==
    /\ mode = "cache"
    /\ \E g \in CacheUsers : \E ok \in BOOLEAN :
          /\ ctx[g].pc = "save"
          /\ IF ok
               THEN /\ old' = [old EXCEPT ![ctx[g].path] = chapterID]
                    /\ chapterID' = chapterID + 1
                    /\ ctx' = [ctx EXCEPT ![g] =
                                  [ctx[g] EXCEPT !.pc = "update",
                                                 !.modTime = chapterID]]
               ELSE /\ ctx' = [ctx EXCEPT ![g] = Idle(ctx[g].left)]
                    /\ UNCHANGED <<old, chapterID>>
    /\ UNCHANGED <<mode, pc, files, fileIdx, lines, i, novel, tempNovel,
                   fmtLine, fmtOut>>

\* updateCache under the write lock, then the call returns
UpdateCache ==
    /\ mode = "cache"
    /\ \E g \in CacheUsers :
          /\ ctx[g].pc = "update"
          /\ novel' \in updateCache(novel, fileIdx, ctx[g].path, ctx[g].modTime,
                                    chapterID)
          /\ fmtOut' = <<ctx[g].path>>
          /\ ctx' = [ctx EXCEPT ![g] = Idle(ctx[g].left)]
    /\ chapterID' = chapterID + 1
    /\ UNCHANGED <<mode, pc, files, fileIdx, lines, i, old, tempNovel, fmtLine>>

NextCache == CacheCall \/ LoadCheck \/ LoadReal \/ SaveReal \/ UpdateCache

SpecCache == InitCache /\ [][NextCache]_vars

\* the cache never has more than maxCacheSize entries
C39_SizeBounded == mode = "cache" => Cardinality(novel) <= fileIdx

\* a step that removes the entry of a path other than the one it stores is a
\* step that stores a path not yet cached into a full cache
C39_EvictionStep ==
    (mode = "cache" /\ novel' # novel
       /\ CachedPaths(novel) \ CachedPaths(novel') # {})
    => /\ fmtOut'[1] \notin CachedPaths(novel)
       /\ Cardinality(novel) >= fileIdx

\* C39: for a CachedResource with maxCacheSize >= 1, after any sequence of
\* Load and Save, also interleaved calls from several goroutines, the number
\* of cache entries never exceeds maxCacheSize, and an entry is evicted only
\* when inserting would otherwise exceed the bound (re-saving a cached path
\* evicts no other entry).
C39_BoundedCache == []C39_SizeBounded /\ [][C39_EvictionStep]_vars

\* an entry is removed only from a full cache, and never more than one
C39_EvictsOneWhenFull ==
    [][(mode = "cache" /\ novel' # novel)
       => /\ Cardinality(CachedPaths(novel) \ CachedPaths(novel')) <= 1
          /\ CachedPaths(novel) \ CachedPaths(novel') # {}
                 => Cardinality(novel) >= fileIdx]_vars

=============================================================================
